---- MODULE Spec2Model ----
(***************************************************************************)
(* Legal-obligation engine of the BZR portal: the obligation detector      *)
(* (obligation-detector.service.ts), the deadline notifier                 *)
(* (deadline-notification.service.ts) and the obligation endpoints of the  *)
(* evidence router (evidence.ts), over the legal_obligations table; and the *)
(* risk scorer of the document generator (calculateRisk, getRiskLevel).    *)
(* Beside the engine: the risk assessment wizard, the document workflow,   *)
(* the message threads and the invoices, each with variables of its own    *)
(* that the engine's operations leave alone.                               *)
(*                                                                         *)
(* The operations are modelled twice: as one step each (a call that runs   *)
(* alone), and statement by statement (syncCalls, sweepRuns) for calls     *)
(* that overlap, where every awaited statement is a step of its own.       *)
(*                                                                         *)
(* Dates are day numbers: day 1 is 1 January of a 365-day year.  The       *)
(* database's CURRENT_DATE and the server's `new Date()` are read as the   *)
(* same calendar day (one time zone), held in `today`.  The timestamp      *)
(* columns createdAt/updatedAt and the text columns opis/pravniOsnov are   *)
(* read by no decision of the code and are not part of the state.          *)
(***************************************************************************)
EXTENDS Integers, Sequences, FiniteSets, TLC

VARIABLES
    today,             \* CURRENT_DATE
    legalObligations,  \* table legal_obligations: row i has id i (serial)
    evidence,          \* tables of obrazac 8, 9, 10 (inspection records)
    requirements,      \* tables medical_exam_requirements, training_requirements
    faults,            \* environment: rejected statements injected so far
    lastOp,            \* history: the last operation, its arguments and result
    mailRuns,          \* history: per row and gate, the sweeps that called sendEmail
    syncCalls,         \* syncAllObligations calls in flight, statement by statement
    sweepRuns,         \* checkAndSendNotifications runs in flight, statement by statement
    risks,             \* data.risks, the input of DocumentGenerator.generate
    enrichedRisks,     \* the rows DocumentGenerator.generate has computed
    templateData,      \* the counters DocumentGenerator.generate has computed
    frequencyCall,     \* a parseFrequencyToMonths call: its argument and result
    wizard,            \* the state of a RiskAssessmentWizard component
    documentWorkflow,  \* table document_workflow: row i has id i
    companyData,       \* what a company has on file: the fields identifyMissingData looks for
    messageThreads,    \* table message_threads: row i has id i
    messages,          \* table messages
    messagingCalls,    \* messaging procedures in flight, statement by statement
    invoices,          \* table invoices: row i has id i
    subscriptionPaidUntil, \* companies.subscriptionPaidUntil, per company
    lastPaid           \* history: the last markAsPaid call

\* the calls in flight, and the document generator's data
callVars == <<syncCalls, sweepRuns>>
docVars == <<risks, enrichedRisks, templateData>>

\* the variables of the components beside the obligation engine
otherVars == <<frequencyCall, wizard, documentWorkflow, companyData,
               messageThreads, messages, messagingCalls,
               invoices, subscriptionPaidUntil, lastPaid>>

\* the obligation engine's own variables
engineVars == <<today, legalObligations, evidence, requirements, faults, lastOp,
                mailRuns>>

vars == <<engineVars, callVars, docVars, otherVars>>

----------------------------------------------------------------------------
(* Bounds of the model *)

\* last day the clock reaches
MaxDay == 8
\* rejected statements (query, send, update) the environment injects in all
MaxFaults == 1
\* the mailRuns history counters saturate here
MailRunsCap == 2
\* last day the clock reaches while statement-by-statement calls overlap
MaxRaceDay == 3
\* checkAndSendNotifications runs each concurrent caller starts
MaxSweepCalls == 1
\* the factors e, p, f given to the risk scorer range over 0..MaxFactor
MaxFactor == 7
\* the longest list of risks a document request carries
MaxRisks == 3
\* the highest value the wizard's user gives a factor
MaxWizardFactor == 3
\* the longest list of risks the wizard's user builds
MaxWizardRisks == 2
\* the number of document workflows created
MaxWorkflows == 2
\* the number of messages sent
MaxMessages == 2
\* the number of invoices created, and of markAsPaid calls
MaxInvoices == 2
MaxPayments == 3

----------------------------------------------------------------------------
(* Values *)

\* SQL NULL / JS null, undefined (no id and no date is 0: ids and days start at 1)
NULL == 0

Min(a, b) == IF a < b THEN a ELSE b

\* the notification gates; 0 is the expiry notice (sendDeadlineEmail(obligation, 0))
Gates == {30, 7, 1, 0}

----------------------------------------------------------------------------
(* Calendar: Date.setMonth(getMonth() + n) and toISOString().split('T')[0] *)

CumDays == <<0, 31, 59, 90, 120, 151, 181, 212, 243, 273, 304, 334>>

MonthIndex(doy) == CHOOSE m \in 0..11 :
    /\ CumDays[m + 1] <= doy
    /\ (m = 11 \/ doy < CumDays[m + 2])

\* the day n months after day d; a day-of-month past the end of the target
\* month rolls over into the next month, as setMonth does
AddMonths(d, n) ==
    LET y   == (d - 1) \div 365
        doy == (d - 1) % 365
        m   == MonthIndex(doy)
        dom == doy - CumDays[m + 1]
        tm  == y * 12 + m + n
    IN  365 * (tm \div 12) + CumDays[(tm % 12) + 1] + dom + 1

----------------------------------------------------------------------------
(* Strings as sequences of characters, for String.includes / toLowerCase *)

Upper == <<"A","B","C","D","E","F","G","H","I","J","K","L","M",
           "N","O","P","Q","R","S","T","U","V","W","X","Y","Z">>
LowerCs == <<"a","b","c","d","e","f","g","h","i","j","k","l","m",
             "n","o","p","q","r","s","t","u","v","w","x","y","z">>

LowerChar(c) ==
    IF \E k \in 1..26 : Upper[k] = c
    THEN LowerCs[CHOOSE k \in 1..26 : Upper[k] = c]
    ELSE c

toLowerCase(s) == [k \in 1..Len(s) |-> LowerChar(s[k])]

includes(s, sub) ==
    \E k \in 0..(Len(s) - Len(sub)) : SubSeq(s, k + 1, k + Len(sub)) = sub

parseFrequencyToMonths(frequency) ==
    LET lower == toLowerCase(frequency) IN
    IF includes(lower, <<"g","o","d","i","s","n","j">>)
       \/ includes(lower, <<"g","o","d","i","s","n","j","e">>) THEN 12
    ELSE IF includes(lower, <<"6"," ","m","e","s","e","c","i">>)
       \/ includes(lower, <<"p","o","l","u","g","o","d","i","s","n","j","e">>) THEN 6
    ELSE IF includes(lower, <<"3"," ","m","e","s","e","c">>)
       \/ includes(lower, <<"k","v","a","r","t","a","l","n","o">>) THEN 3
    ELSE IF includes(lower, <<"2"," ","g","o","d","i","n">>)
       \/ includes(lower, <<"s","v","a","k","e"," ","2">>) THEN 24
    ELSE IF includes(lower, <<"3"," ","g","o","d","i","n">>)
       \/ includes(lower, <<"s","v","a","k","e"," ","3">>) THEN 36
    ELSE IF includes(lower, <<"5"," ","g","o","d","i","n">>)
       \/ includes(lower, <<"s","v","a","k","e"," ","5">>) THEN 60
    ELSE IF includes(lower, <<"m","e","s","e","c","n","o">>)
       \/ includes(lower, <<"m","e","s","e","c","n">>) THEN 1
    ELSE 12

----------------------------------------------------------------------------
(* The rows the detector and the notifier read but never write *)

\* companies: name is not read by a decision; ownerEmail || email is the address
companies == [c \in {1, 2} |->
    IF c = 1 THEN [id |-> 1, email |-> "info@c1", ownerEmail |-> "owner@c1"]
             ELSE [id |-> 2, email |-> "info@c2", ownerEmail |-> ""]]

agencies == [a \in {1} |-> [id |-> 1, email |-> "agency@a1"]]

workPositions == <<
    [id |-> 1, companyId |-> 1, isDeleted |-> FALSE],
    [id |-> 2, companyId |-> 2, isDeleted |-> FALSE] >>

\* the two populations the model starts from: a database whose companies keep
\* inspection records (obrazac 8 and 9), and one whose positions carry
\* medical-exam and training requirements
InspectionTables ==
    [o \in {8, 9, 10} |->
        CASE o = 8  -> <<[id |-> 1, companyId |-> 1, isDeleted |-> FALSE,
                          sledeciPregled |-> 9]>>
          [] o = 9  -> <<[id |-> 1, companyId |-> 2, isDeleted |-> FALSE,
                          sledeciPregled |-> 2]>>
          [] o = 10 -> << >>]

NoInspections == [o \in {8, 9, 10} |-> << >>]

RequirementTables ==
    [medical  |-> <<[id |-> 1, positionId |-> 1, isDeleted |-> FALSE,
                     frequency |-> <<"M","e","s","e","c","n","o">>]>>,
     training |-> <<[id |-> 1, positionId |-> 1, isDeleted |-> FALSE,
                     frequency |-> <<"g","o","d","i","s","n","j","e">>]>>]

NoRequirements == [medical |-> << >>, training |-> << >>]

----------------------------------------------------------------------------
(* Table legal_obligations *)

\* a row as db.insert(legalObligations).values({...}) creates it: status and
\* the four flags take their column defaults
NewObligation(id, companyId, agencyId, tip, rokDatum, sourceTable, sourceRecordId) ==
    [id |-> id, companyId |-> companyId, agencyId |-> agencyId, tip |-> tip,
     rokDatum |-> rokDatum, status |-> "aktivan",
     notifikovanoDana30 |-> FALSE, notifikovanoDana7 |-> FALSE,
     notifikovanoDana1 |-> FALSE, notifikovanoIsteklo |-> FALSE,
     sourceTable |-> sourceTable, sourceRecordId |-> sourceRecordId]

Ids(rows) == 1..Len(rows)

----------------------------------------------------------------------------
(* Obligation detector *)

\* agencyId || null
OrNull(agencyId) == IF agencyId = NULL THEN NULL ELSE agencyId

\* mutant: the existence query compares source_table with the obligation type
ExistingWrongColumn(rows, companyId, tip, sourceTable, sourceRecordId) ==
    \E i \in Ids(rows) :
        /\ rows[i].companyId = companyId
        /\ rows[i].tip = tip
        /\ rows[i].sourceTable = tip
        /\ rows[i].sourceRecordId = sourceRecordId

\* the detector's existence query: .where(and(companyId, tip, sourceTable,
\* sourceRecordId)).limit(1)
Existing(rows, companyId, tip, sourceTable, sourceRecordId) ==
    \E i \in Ids(rows) :
        /\ rows[i].companyId = companyId
        /\ rows[i].tip = tip
        /\ rows[i].sourceTable = sourceTable
        /\ rows[i].sourceRecordId = sourceRecordId

\* one iteration of a detector loop: check, then insert. acc = [rows, created]
CheckThenInsert(acc, companyId, agencyId, tip, sourceTable, item) ==
    IF Existing(acc.rows, companyId, tip, sourceTable, item.sourceRecordId)
    THEN acc
    ELSE [rows    |-> Append(acc.rows,
                        NewObligation(Len(acc.rows) + 1, companyId, OrNull(agencyId),
                                      tip, item.rokDatum, sourceTable,
                                      item.sourceRecordId)),
          created |-> acc.created + 1]

\* for (const item of items) { ... }  over items = <<[sourceRecordId, rokDatum]>>
RECURSIVE DetectLoop(_, _, _, _, _, _)
DetectLoop(items, acc, companyId, agencyId, tip, sourceTable) ==
    IF items = << >> THEN acc
    ELSE DetectLoop(Tail(items),
                    CheckThenInsert(acc, companyId, agencyId, tip, sourceTable,
                                    Head(items)),
                    companyId, agencyId, tip, sourceTable)

\* requirement rows joined to work_positions of the company, not deleted
RECURSIVE JoinPositions(_, _)
JoinPositions(reqs, companyId) ==
    IF reqs = << >> THEN << >>
    ELSE LET r    == Head(reqs)
             rest == JoinPositions(Tail(reqs), companyId)
         IN  IF /\ ~r.isDeleted
                /\ \E k \in 1..Len(workPositions) :
                      /\ workPositions[k].id = r.positionId
                      /\ workPositions[k].companyId = companyId
                      /\ ~workPositions[k].isDeleted
             THEN <<r>> \o rest
             ELSE rest

\* rokDatum of a requirement: now + parseFrequencyToMonths(frequency) months
FrequencyItems(reqs, now) ==
    [k \in 1..Len(reqs) |->
        [sourceRecordId |-> reqs[k].id,
         rokDatum |-> AddMonths(now, parseFrequencyToMonths(reqs[k].frequency))]]

detectMedicalExamDeadlines(rows, medicalExamRequirements, companyId, agencyId, now) ==
    DetectLoop(FrequencyItems(JoinPositions(medicalExamRequirements, companyId), now),
               [rows |-> rows, created |-> 0],
               companyId, agencyId, "lekarski_pregled", "medical_exam_requirements")

detectTrainingDeadlines(rows, trainingRequirements, companyId, agencyId, now) ==
    DetectLoop(FrequencyItems(JoinPositions(trainingRequirements, companyId), now),
               [rows |-> rows, created |-> 0],
               companyId, agencyId, "obuka_bzr", "training_requirements")

\* inspection records of the company, not deleted, with a sledeciPregled
\* (if (!item.sledeciPregled) continue)
RECURSIVE InspectionItems(_, _)
InspectionItems(table, companyId) ==
    IF table = << >> THEN << >>
    ELSE LET r    == Head(table)
             rest == InspectionItems(Tail(table), companyId)
         IN  IF r.companyId = companyId /\ ~r.isDeleted /\ r.sledeciPregled # NULL
             THEN <<[sourceRecordId |-> r.id, rokDatum |-> r.sledeciPregled]>> \o rest
             ELSE rest

detectEquipmentInspections(rows, ev, companyId, agencyId) ==
    LET a8  == DetectLoop(InspectionItems(ev[8], companyId),
                          [rows |-> rows, created |-> 0], companyId, agencyId,
                          "pregled_opreme", "evidence_equipment_inspections")
        a9  == DetectLoop(InspectionItems(ev[9], companyId), a8, companyId, agencyId,
                          "ispitivanje_instalacija", "evidence_electrical_inspections")
        a10 == DetectLoop(InspectionItems(ev[10], companyId), a9, companyId, agencyId,
                          "ispitivanje_okoline", "evidence_environment_tests")
    IN  a10

\* mutant: the expiry update without its company filter
ExpireOverdueAllCompanies(rows, companyId, now) ==
    [i \in Ids(rows) |->
        IF rows[i].status = "aktivan" /\ rows[i].rokDatum < now
        THEN [rows[i] EXCEPT !.status = "istekao"]
        ELSE rows[i]]

\* mutant: the expiry update with rok_datum <= CURRENT_DATE
ExpireOverdueInclusive(rows, companyId, now) ==
    [i \in Ids(rows) |->
        IF /\ rows[i].companyId = companyId
           /\ rows[i].status = "aktivan"
           /\ rows[i].rokDatum <= now
        THEN [rows[i] EXCEPT !.status = "istekao"]
        ELSE rows[i]]

\* UPDATE legal_obligations SET status = 'istekao'
\*  WHERE company_id = $1 AND status = 'aktivan' AND rok_datum < CURRENT_DATE
ExpireOverdue(rows, companyId, now) ==
    [i \in Ids(rows) |->
        IF /\ rows[i].companyId = companyId
           /\ rows[i].status = "aktivan"
           /\ rows[i].rokDatum < now
        THEN [rows[i] EXCEPT !.status = "istekao"]
        ELSE rows[i]]

\* [rows, created] of syncAllObligations(companyId, agencyId)
syncAllObligations(rows, ev, req, companyId, agencyId, now) ==
    LET medicalExams == detectMedicalExamDeadlines(rows, req.medical, companyId,
                                                   agencyId, now)
        training     == detectTrainingDeadlines(medicalExams.rows, req.training,
                                                companyId, agencyId, now)
        equipment    == detectEquipmentInspections(training.rows, ev, companyId, agencyId)
    IN  [rows    |-> ExpireOverdue(equipment.rows, companyId, now),
         created |-> medicalExams.created + training.created + equipment.created]

----------------------------------------------------------------------------
(* Deadline notifier *)

Flag(ob, g) ==
    CASE g = 30 -> ob.notifikovanoDana30
      [] g = 7  -> ob.notifikovanoDana7
      [] g = 1  -> ob.notifikovanoDana1
      [] g = 0  -> ob.notifikovanoIsteklo

\* mutant: the window opens on the due date itself (rok_datum >= CURRENT_DATE)
GateDueInclusive(ob, g, now) ==
    /\ ob.status = "aktivan"
    /\ Flag(ob, g) = FALSE
    /\ IF g = 0
       THEN ob.rokDatum < now
       ELSE ob.rokDatum <= now + g /\ ob.rokDatum >= now

\* mutant: the query without its status filter
GateDueAnyStatus(ob, g, now) ==
    /\ Flag(ob, g) = FALSE
    /\ IF g = 0
       THEN ob.rokDatum < now
       ELSE ob.rokDatum <= now + g /\ ob.rokDatum > now

\* mutant: disjoint windows, each gate ending where the next one starts
GateDueDisjoint(ob, g, now) ==
    /\ ob.status = "aktivan"
    /\ Flag(ob, g) = FALSE
    /\ CASE g = 0  -> ob.rokDatum < now
         [] g = 1  -> ob.rokDatum <= now + 1 /\ ob.rokDatum > now
         [] g = 7  -> ob.rokDatum <= now + 7 /\ ob.rokDatum > now + 1
         [] g = 30 -> ob.rokDatum <= now + 30 /\ ob.rokDatum > now + 7

\* mutant: the 30-day query leaves out the rows due tomorrow
GateDueSkipsLate(ob, g, now) ==
    /\ ob.status = "aktivan"
    /\ Flag(ob, g) = FALSE
    /\ CASE g = 0  -> ob.rokDatum < now
         [] g = 30 -> ob.rokDatum <= now + 30 /\ ob.rokDatum > now + 1
         [] OTHER  -> ob.rokDatum <= now + g /\ ob.rokDatum > now

\* the WHERE clause of a gate's query
GateDue(ob, g, now) ==
    /\ ob.status = "aktivan"
    /\ Flag(ob, g) = FALSE
    /\ IF g = 0
       THEN ob.rokDatum < now
       ELSE ob.rokDatum <= now + g /\ ob.rokDatum > now

\* ids of the rows a gate's query returns
GateItems(rows, g, now) == {i \in Ids(rows) : GateDue(rows[i], g, now)}

\* mutant: the update writes all three reminder flags, the others as false
SetGateOnly(ob, g) ==
    CASE g = 30 -> [ob EXCEPT !.notifikovanoDana30 = TRUE,
                              !.notifikovanoDana7 = FALSE, !.notifikovanoDana1 = FALSE]
      [] g = 7  -> [ob EXCEPT !.notifikovanoDana30 = FALSE,
                              !.notifikovanoDana7 = TRUE, !.notifikovanoDana1 = FALSE]
      [] g = 1  -> [ob EXCEPT !.notifikovanoDana30 = FALSE,
                              !.notifikovanoDana7 = FALSE, !.notifikovanoDana1 = TRUE]
      [] g = 0  -> [ob EXCEPT !.notifikovanoIsteklo = TRUE, !.status = "istekao"]

\* the .set({...}) of a gate's update
SetGate(ob, g) ==
    CASE g = 30 -> [ob EXCEPT !.notifikovanoDana30 = TRUE]
      [] g = 7  -> [ob EXCEPT !.notifikovanoDana7 = TRUE]
      [] g = 1  -> [ob EXCEPT !.notifikovanoDana1 = TRUE]
      [] g = 0  -> [ob EXCEPT !.notifikovanoIsteklo = TRUE, !.status = "istekao"]

\* what the environment does to the processing of one obligation in one gate:
\*  ok              every statement succeeds
\*  lookupThrows    the company query of sendDeadlineEmail rejects
\*  sendFails       sendEmail rejects for every recipient
\*  updateThrows    the flag update rejects
\*  companyMissing  the company query returns no row (const [company] is
\*                  undefined): the row is gone by the time it is looked up
Outcomes == {"ok", "lookupThrows", "sendFails", "updateThrows", "companyMissing"}

\* the outcomes in which a statement rejects
Rejections == {"lookupThrows", "sendFails", "updateThrows"}

\* mutant: the sendEmail calls without their .catch, so that the first
\* rejected send rejects sendDeadlineEmail
sendDeadlineEmailNoCatch(ob, outcome) ==
    IF outcome = "lookupThrows"
    THEN [threw |-> TRUE, attempted |-> {}, failed |-> {}]
    ELSE LET company      == IF /\ outcome # "companyMissing"
                                /\ ob.companyId \in DOMAIN companies
                             THEN companies[ob.companyId]
                             ELSE [id |-> NULL, email |-> "", ownerEmail |-> ""]
             agencyEmail  == IF ob.agencyId # NULL /\ ob.agencyId \in DOMAIN agencies
                             THEN agencies[ob.agencyId].email
                             ELSE ""
             companyEmail == IF company.ownerEmail # "" THEN company.ownerEmail
                             ELSE company.email
             attempted    == (IF companyEmail # "" THEN {"company"} ELSE {})
                             \cup (IF agencyEmail # "" THEN {"agency"} ELSE {})
             first        == IF "company" \in attempted THEN {"company"}
                             ELSE attempted
         IN  IF outcome = "sendFails" /\ attempted # {}
             THEN [threw |-> TRUE, attempted |-> first, failed |-> first]
             ELSE [threw |-> FALSE, attempted |-> attempted, failed |-> {}]

\* sendDeadlineEmail(obligation, daysRemaining): [threw, attempted, failed];
\* attempted are the recipients sendEmail is called for
sendDeadlineEmail(ob, outcome) ==
    IF outcome = "lookupThrows"
    THEN [threw |-> TRUE, attempted |-> {}, failed |-> {}]
    ELSE LET company      == IF /\ outcome # "companyMissing"
                                /\ ob.companyId \in DOMAIN companies
                             THEN companies[ob.companyId]
                             ELSE [id |-> NULL, email |-> "", ownerEmail |-> ""]
             agencyEmail  == IF ob.agencyId # NULL /\ ob.agencyId \in DOMAIN agencies
                             THEN agencies[ob.agencyId].email
                             ELSE ""
             companyEmail == IF company.ownerEmail # "" THEN company.ownerEmail
                             ELSE company.email
             attempted    == (IF companyEmail # "" THEN {"company"} ELSE {})
                             \cup (IF agencyEmail # "" THEN {"agency"} ELSE {})
         IN  \* a rejected sendEmail is caught by .catch(err => console.error(...))
             [threw     |-> FALSE,
              attempted |-> attempted,
              failed    |-> IF outcome = "sendFails" THEN attempted ELSE {}]

\* the body of a gate's loop for row i threw (try { ... } catch { errors++ }):
\* sendDeadlineEmail threw, or the flag update did
Threw(ob, outcome) ==
    sendDeadlineEmail(ob, outcome).threw \/ outcome = "updateThrows"

\* one gate: its query, then its loop over the rows returned. The iterations
\* are independent (each reads the row as the query returned it and updates
\* that row by id), so the loop is given by its effect on each row.
\* run = [rows, sent, errors, selected, mailed, agencyMailed, failed, thrown,
\*        raised, missing]: the table, the two counters, and the pairs <<id, gate>>
\*  selected      returned by the gate's query
\*  mailed        sendEmail was called for a recipient
\*  agencyMailed  sendEmail was called for the agency
\*  failed        a sendEmail call rejected
\*  thrown        the loop body threw and the catch counted an error
\*  raised        the environment rejected a statement
\*  missing       the company query returned no row
Gate(run, g, now, outcome) ==
    LET items == GateItems(run.rows, g, now)
        threw == {i \in items : Threw(run.rows[i], outcome[i])}
    IN  [rows     |-> [i \in Ids(run.rows) |->
                          IF i \in items \ threw
                          THEN SetGate(run.rows[i], g)
                          ELSE run.rows[i]],
         sent     |-> run.sent + Cardinality(items \ threw),
         errors   |-> run.errors + Cardinality(threw),
         selected |-> run.selected \cup {<<i, g>> : i \in items},
         mailed   |-> run.mailed \cup
                        {<<i, g>> : i \in
                            {k \in items :
                                sendDeadlineEmail(run.rows[k], outcome[k]).attempted
                                    # {}}},
         agencyMailed |-> run.agencyMailed \cup
                        {<<i, g>> : i \in
                            {k \in items : "agency" \in
                                sendDeadlineEmail(run.rows[k], outcome[k]).attempted}},
         failed   |-> run.failed \cup
                        {<<i, g>> : i \in
                            {k \in items :
                                sendDeadlineEmail(run.rows[k], outcome[k]).failed
                                    # {}}},
         thrown   |-> run.thrown \cup {<<i, g>> : i \in threw},
         raised   |-> run.raised \cup
                        {<<i, g>> : i \in {k \in items : outcome[k] \in Rejections}},
         missing  |-> run.missing \cup
                        {<<i, g>> : i \in
                            {k \in items : outcome[k] = "companyMissing"}}]

\* the obligations of a run the environment has disturbed
Disturbed(run) == Cardinality(run.raised) + Cardinality(run.missing)

Faults(outcome) == Cardinality({i \in DOMAIN outcome : outcome[i] # "ok"})

\* the outcomes the environment can give the items of one gate, with at most
\* `budget` of them not ok
OutcomeChoices(items, budget) ==
    {f \in [items -> Outcomes] : Faults(f) <= budget}

StartRun(rows) ==
    [rows |-> rows, sent |-> 0, errors |-> 0,
     selected |-> {}, mailed |-> {}, agencyMailed |-> {}, failed |-> {},
     thrown |-> {}, raised |-> {}, missing |-> {}]

----------------------------------------------------------------------------
(* Queries of the evidence router: the ids of the rows returned *)

\* status = 'aktivan' AND rok_datum >= CURRENT_DATE
\*  AND rok_datum <= CURRENT_DATE + INTERVAL '90 days', plus the optional filters
obligationsUpcoming(rows, companyId, agencyId, now) ==
    {i \in Ids(rows) :
        /\ rows[i].status = "aktivan"
        /\ rows[i].rokDatum >= now
        /\ rows[i].rokDatum <= now + 90
        /\ (companyId # NULL => rows[i].companyId = companyId)
        /\ (agencyId # NULL => rows[i].agencyId = agencyId)}

\* rok_datum < CURRENT_DATE AND status IN ('aktivan', 'istekao'), plus the filters
obligationsOverdue(rows, companyId, agencyId, now) ==
    {i \in Ids(rows) :
        /\ rows[i].rokDatum < now
        /\ rows[i].status \in {"aktivan", "istekao"}
        /\ (companyId # NULL => rows[i].companyId = companyId)
        /\ (agencyId # NULL => rows[i].agencyId = agencyId)}

\* getCompanyEvidenceOverview, overdue_obligations: count(*) of the company's
\* rows with status = 'aktivan' AND rok_datum < CURRENT_DATE
overdue_obligations(rows, companyId, now) ==
    Cardinality({i \in Ids(rows) :
        /\ rows[i].companyId = companyId
        /\ rows[i].status = "aktivan"
        /\ rows[i].rokDatum < now})

----------------------------------------------------------------------------
(* Inputs *)

Companies == DOMAIN companies
\* the agencyId argument of a sync: company 1 is a client of agency 1,
\* company 2 of none (the argument is absent)
AgencyOf(companyId) == IF companyId = 1 THEN 1 ELSE NULL
\* the sledeciPregled values updateRecord writes
PregledDates == {NULL, 5, 9}

----------------------------------------------------------------------------
(* History *)

\* lastOp is the argument and result of the sync or of the notifier run that
\* was the last operation, and NoOp after any other step. `repeat` marks a sync
\* that directly follows a sync of the same company; rowsBefore is then the
\* row count it started from and prevCreated the `created` of that first sync
NoOp ==
    [kind |-> "none", companyId |-> NULL,
     created |-> 0, sent |-> 0, errors |-> 0,
     selected |-> {}, mailed |-> {}, agencyMailed |-> {}, failed |-> {},
     thrown |-> {}, raised |-> {}, missing |-> {},
     repeat |-> FALSE, rowsBefore |-> 0, prevCreated |-> 0]

Op(kind) == [NoOp EXCEPT !.kind = kind]

NoMail == [g \in Gates |-> 0]

\* mailRuns after a sweep that called sendEmail for the pairs in `mailed`
CountMail(runs, mailed) ==
    [i \in 1..Len(runs) |->
        [g \in Gates |-> IF <<i, g>> \in mailed
                         THEN Min(runs[i][g] + 1, MailRunsCap)
                         ELSE runs[i][g]]]

----------------------------------------------------------------------------
(* Calls in flight *)

\* the concurrent callers of obligationsSync and of sendNotifications
Syncers == {1, 2}
Sweepers == {1, 2}

\* the five loops of a sync, in the order syncAllObligations runs them
DetectorLoops == <<
    [tip |-> "lekarski_pregled", sourceTable |-> "medical_exam_requirements"],
    [tip |-> "obuka_bzr", sourceTable |-> "training_requirements"],
    [tip |-> "pregled_opreme", sourceTable |-> "evidence_equipment_inspections"],
    [tip |-> "ispitivanje_instalacija",
     sourceTable |-> "evidence_electrical_inspections"],
    [tip |-> "ispitivanje_okoline", sourceTable |-> "evidence_environment_tests"] >>

\* the four gates, in the order checkAndSendNotifications runs them
GateOrder == <<30, 7, 1, 0>>

\* a syncAllObligations call: pc is the statement it awaits next
\*  select  the source query of loop `loop`
\*  check   the existence query for Head(items)
\*  insert  the insert of `row`, the due date computed after the check
\*  expire  the expiry update
\* result is "returned" or "threw" once the call has ended; failedAt is the
\* statement that rejected
IdleSync ==
    [pc |-> "idle", companyId |-> NULL, agencyId |-> NULL, loop |-> 0,
     items |-> << >>, rokDatum |-> NULL, created |-> 0,
     result |-> "none", expired |-> FALSE, failedAt |-> "none"]

\* a checkAndSendNotifications run: pc is the statement it awaits next
\*  query   the query of gate GateOrder[gate]
\*  send    sendDeadlineEmail for one of `items`, the rows the query returned
\*  update  the flag update of `cur`
\* calls counts the runs the caller has started
IdleSweep ==
    [pc |-> "idle", gate |-> 0, items |-> {}, cur |-> NULL,
     sent |-> 0, errors |-> 0, selected |-> {}, mailed |-> {},
     result |-> "none", calls |-> 0]

----------------------------------------------------------------------------
(* The components beside the engine, at rest *)

\* a counter that also takes the product 36 for a medium risk
RiskCountsLoose(enriched) ==
    LET rows == 1..Len(enriched)
    IN  [totalHazardsCount |-> Len(enriched),
         highRiskCount |-> Cardinality({k \in rows : enriched[k].residualR > 70}),
         mediumRiskCount |->
             Cardinality({k \in rows : /\ enriched[k].residualR >= 36
                                       /\ enriched[k].residualR <= 70}),
         lowRiskCount |-> Cardinality({k \in rows : enriched[k].residualR <= 36})]

\* the counters of generate: one per band of the residual risk, and the total
RiskCounts(enriched) ==
    LET rows == 1..Len(enriched)
    IN  [totalHazardsCount |-> Len(enriched),
         highRiskCount |-> Cardinality({k \in rows : enriched[k].residualR > 70}),
         mediumRiskCount |->
             Cardinality({k \in rows : /\ enriched[k].residualR >= 37
                                       /\ enriched[k].residualR <= 70}),
         lowRiskCount |-> Cardinality({k \in rows : enriched[k].residualR <= 36})]

\* no document generated yet
DocsIdle ==
    /\ risks = << >>
    /\ enrichedRisks = << >>
    /\ templateData = RiskCounts(<< >>)

\* no parseFrequencyToMonths call made
FrequencyIdle == frequencyCall = [frequency |-> << >>, months |-> NULL]

\* useHazardTypes: the hazards the selector offers (nameSr is shown, not read)
hazards == {[id |-> 1, code |-> "01"], [id |-> 2, code |-> "02"]}

\* the draft of a risk before anything was entered; hazardId null is NULL
emptyDraft ==
    [hazardId |-> NULL, hazardCode |-> "",
     initialE |-> 1, initialP |-> 1, initialF |-> 1, initialRi |-> 1,
     correctiveMeasures |-> 0,
     residualE |-> 1, residualP |-> 1, residualF |-> 1, residualR |-> 1,
     residualValid |-> FALSE]

\* the component as mounted with no initialRisks: the form is shown at its
\* first step. correctiveMeasures is the length of the text; riskHazardIds is
\* the Map as a set of <<risk id, hazard id>>; completed is what the last
\* step passed to onComplete, << >> if the last step was not handleComplete
NewWizard ==
    [risks |-> << >>, riskHazardIds |-> {}, draft |-> emptyDraft,
     showForm |-> TRUE, formStep |-> "hazard", completed |-> << >>]

WizardIdle == wizard = NewWizard

\* the data identifyMissingData looks for: of the company row, and the tables
\* counted for the company; the last two only for a risk assessment act
CommonFields == {"pib", "address", "director", "work_positions", "workers"}
RiskFields == {"risk_assessments", "activity_code"}

\* the companies that have document workflows
WorkflowCompanies == {1}

WorkflowIdle ==
    /\ documentWorkflow = << >>
    /\ companyData = [c \in WorkflowCompanies |-> CommonFields \cup RiskFields]

\* the two signed-in users, by ctx.userType: the user of agency 1 and the
\* owner of company 1
Users == {"agency", "company"}

\* a user with no messaging procedure running
IdleCall == [pc |-> "idle", op |-> "none", threadId |-> NULL]

MessagingIdle ==
    /\ messageThreads = << >>
    /\ messages = << >>
    /\ messagingCalls = [u \in Users |-> IdleCall]

\* no markAsPaid call yet. Afterwards: the invoice of the last call, whether
\* its status was 'paid' when the call started, the company's
\* subscriptionPaidUntil before and after the call, and the number of calls
NoPaid ==
    [invoiceId |-> NULL, wasPaid |-> FALSE, before |-> NULL, after |-> NULL,
     calls |-> 0]

\* no invoices; subscriptionPaidUntil is null (NULL) for every company
BillingIdle ==
    /\ invoices = << >>
    /\ subscriptionPaidUntil = [c \in DOMAIN companies |-> NULL]
    /\ lastPaid = NoPaid

\* the obligation engine before anything was detected, nothing in flight
EngineIdle ==
    /\ today = 1
    /\ legalObligations = << >>
    /\ evidence = NoInspections
    /\ requirements = NoRequirements
    /\ faults = 0
    /\ lastOp = NoOp
    /\ mailRuns = << >>
    /\ syncCalls = [q \in Syncers |-> IdleSync]
    /\ sweepRuns = [p \in Sweepers |-> IdleSweep]

\* every component at rest: the wizard just mounted, the tables empty
InitIdle ==
    /\ EngineIdle
    /\ DocsIdle
    /\ FrequencyIdle
    /\ WizardIdle
    /\ WorkflowIdle
    /\ MessagingIdle
    /\ BillingIdle

----------------------------------------------------------------------------
(* Actions *)

Init ==
    /\ today = 1
    /\ legalObligations = << >>
    /\ \/ evidence = InspectionTables /\ requirements = NoRequirements
       \/ evidence = NoInspections /\ requirements = RequirementTables
    /\ faults = 0
    /\ lastOp = NoOp
    /\ mailRuns = << >>
    /\ syncCalls = [q \in Syncers |-> IdleSync]
    /\ sweepRuns = [p \in Sweepers |-> IdleSweep]
    /\ DocsIdle
    /\ FrequencyIdle
    /\ WizardIdle
    /\ WorkflowIdle
    /\ MessagingIdle
    /\ BillingIdle

\* midnight: CURRENT_DATE advances, up to the day lastDay
TickTo(lastDay) ==
    /\ today < lastDay
    /\ today' = today + 1
    /\ lastOp' = NoOp
    /\ UNCHANGED <<legalObligations, evidence, requirements, faults, mailRuns>>
    /\ UNCHANGED <<callVars, docVars, otherVars>>

Tick == TickTo(MaxDay)

\* midnight while calls overlap
RaceTick == TickTo(MaxRaceDay)

\* evidence.obligationsSync -> syncAllObligations(companyId, agencyId)
SyncAllObligations(companyId, agencyId) ==
    LET r == syncAllObligations(legalObligations, evidence, requirements,
                                companyId, agencyId, today)
        repeat == lastOp.kind = "sync" /\ lastOp.companyId = companyId
    IN  /\ legalObligations' = r.rows
        /\ lastOp' = [Op("sync") EXCEPT
                         !.companyId = companyId, !.created = r.created,
                         !.repeat = repeat,
                         !.rowsBefore = IF repeat THEN Len(legalObligations) ELSE 0,
                         !.prevCreated = IF repeat THEN lastOp.created ELSE 0]
        /\ mailRuns' = [i \in 1..Len(r.rows) |->
                          IF i <= Len(mailRuns) THEN mailRuns[i] ELSE NoMail]
        /\ UNCHANGED <<today, evidence, requirements, faults>>
        /\ UNCHANGED <<callVars, docVars, otherVars>>

\* evidence.sendNotifications -> checkAndSendNotifications(), with at most
\* `budget` of the obligations it processes hit by a rejected statement
CheckAndSendNotificationsWith(budget) ==
    \E o30 \in OutcomeChoices(GateItems(legalObligations, 30, today), budget) :
    \E r30 \in {Gate(StartRun(legalObligations), 30, today, o30)} :
    \E o7 \in OutcomeChoices(GateItems(r30.rows, 7, today),
                             budget - Disturbed(r30)) :
    \E r7 \in {Gate(r30, 7, today, o7)} :
    \E o1 \in OutcomeChoices(GateItems(r7.rows, 1, today),
                             budget - Disturbed(r7)) :
    \E r1 \in {Gate(r7, 1, today, o1)} :
    \E o0 \in OutcomeChoices(GateItems(r1.rows, 0, today),
                             budget - Disturbed(r1)) :
    \E r0 \in {Gate(r1, 0, today, o0)} :
        /\ legalObligations' = r0.rows
        /\ lastOp' = [Op("notify") EXCEPT !.sent = r0.sent, !.errors = r0.errors,
                                          !.selected = r0.selected,
                                          !.mailed = r0.mailed,
                                          !.agencyMailed = r0.agencyMailed,
                                          !.failed = r0.failed,
                                          !.thrown = r0.thrown,
                                          !.raised = r0.raised,
                                          !.missing = r0.missing]
        /\ mailRuns' = CountMail(mailRuns, r0.mailed)
        /\ faults' = faults + Disturbed(r0)
        /\ UNCHANGED <<today, evidence, requirements>>
        /\ UNCHANGED <<callVars, docVars, otherVars>>

CheckAndSendNotifications == CheckAndSendNotificationsWith(MaxFaults - faults)

\* evidence.obligationMarkComplete({id})
ObligationMarkComplete(id) ==
    /\ legalObligations' =
          [i \in Ids(legalObligations) |->
              IF legalObligations[i].id = id
              THEN [legalObligations[i] EXCEPT !.status = "zavrsen"]
              ELSE legalObligations[i]]
    /\ lastOp' = NoOp
    /\ UNCHANGED <<today, evidence, requirements, faults, mailRuns>>
    /\ UNCHANGED <<callVars, docVars, otherVars>>

\* evidence.updateRecord({obrazac, id, data: {sledeciPregled}})
UpdateRecord(obrazac, id, sledeciPregled) ==
    /\ evidence' = [evidence EXCEPT ![obrazac] =
          [k \in 1..Len(@) |->
              IF @[k].id = id
              THEN [@[k] EXCEPT !.sledeciPregled = sledeciPregled]
              ELSE @[k]]]
    /\ lastOp' = NoOp
    /\ UNCHANGED <<today, legalObligations, requirements, faults, mailRuns>>
    /\ UNCHANGED <<callVars, docVars, otherVars>>

\* the operations with an environment that may reject statements
Next ==
    \/ Tick
    \/ \E c \in Companies : SyncAllObligations(c, AgencyOf(c))
    \/ CheckAndSendNotifications
    \/ \E id \in 1..(Len(legalObligations) + 1) : ObligationMarkComplete(id)

Spec == Init /\ [][Next]_vars

\* a sweep in which no statement rejects
ReliableSweep == CheckAndSendNotificationsWith(0)

\* the operations with a reliable environment and editable inspection records
NextEdit ==
    \/ Tick
    \/ \E c \in Companies : SyncAllObligations(c, AgencyOf(c))
    \/ ReliableSweep
    \/ \E id \in 1..(Len(legalObligations) + 1) : ObligationMarkComplete(id)
    \/ \E d \in PregledDates : UpdateRecord(8, 1, d)

SpecEdit == Init /\ [][NextEdit]_vars

\* the operations with a reliable environment, sweeps being run again and
\* again (the cron trigger)
NextLive ==
    \/ Tick
    \/ \E c \in Companies : SyncAllObligations(c, AgencyOf(c))
    \/ ReliableSweep
    \/ \E id \in 1..(Len(legalObligations) + 1) : ObligationMarkComplete(id)

SpecLive == Init /\ [][NextLive]_vars /\ WF_vars(ReliableSweep)

----------------------------------------------------------------------------
(* syncAllObligations, statement by statement *)

\* the rows the source query of a loop returns (the inspection loops skip a
\* record without sledeciPregled)
LoopItems(loop, ev, req, companyId) ==
    IF loop <= 2
    THEN LET j == JoinPositions(IF loop = 1 THEN req.medical ELSE req.training,
                                companyId)
         IN  [k \in 1..Len(j) |->
                 [sourceRecordId |-> j[k].id, rokDatum |-> NULL,
                  frequency |-> j[k].frequency]]
    ELSE LET t == InspectionItems(ev[loop + 5], companyId)
         IN  [k \in 1..Len(t) |->
                 [sourceRecordId |-> t[k].sourceRecordId,
                  rokDatum |-> t[k].rokDatum, frequency |-> << >>]]

\* the due date of the row to insert: new Date() plus the frequency for a
\* requirement, sledeciPregled for an inspection
ItemDate(loop, item, now) ==
    IF loop <= 2
    THEN AddMonths(now, parseFrequencyToMonths(item.frequency))
    ELSE item.rokDatum

\* where a call goes when the loop `loop` has no item left
AfterLoop(call) ==
    IF call.loop < Len(DetectorLoops)
    THEN [call EXCEPT !.pc = "select", !.loop = call.loop + 1, !.items = << >>]
    ELSE [call EXCEPT !.pc = "expire", !.items = << >>]

\* the next iteration of the loop, or the statement after the loop
NextItem(call, items) ==
    IF items = << >> THEN AfterLoop(call)
    ELSE [call EXCEPT !.pc = "check", !.items = items]

\* obligationsSync is called: syncAllObligations(companyId, agencyId) starts
SyncCall(q, companyId, agencyId) ==
    /\ syncCalls[q].pc = "idle"
    /\ syncCalls' = [syncCalls EXCEPT ![q] =
          [IdleSync EXCEPT !.pc = "select", !.loop = 1,
                           !.companyId = companyId, !.agencyId = agencyId]]
    /\ lastOp' = NoOp
    /\ UNCHANGED <<today, legalObligations, evidence, requirements, faults,
                   mailRuns, sweepRuns, docVars, otherVars>>

\* the source query of a detector loop
SyncSelect(q) ==
    LET call == syncCalls[q] IN
    /\ call.pc = "select"
    /\ syncCalls' = [syncCalls EXCEPT ![q] =
          NextItem(call, LoopItems(call.loop, evidence, requirements,
                                   call.companyId))]
    /\ lastOp' = NoOp
    /\ UNCHANGED <<today, legalObligations, evidence, requirements, faults,
                   mailRuns, sweepRuns, docVars, otherVars>>

\* the existence query of an iteration: `continue` if the row exists,
\* otherwise the due date is computed and the insert is issued
SyncCheck(q) ==
    LET call == syncCalls[q]
        item == Head(call.items)
    IN  /\ call.pc = "check"
        /\ syncCalls' = [syncCalls EXCEPT ![q] =
              IF Existing(legalObligations, call.companyId,
                          DetectorLoops[call.loop].tip,
                          DetectorLoops[call.loop].sourceTable,
                          item.sourceRecordId)
              THEN NextItem(call, Tail(call.items))
              ELSE [call EXCEPT !.pc = "insert",
                                !.rokDatum = ItemDate(call.loop, item, today)]]
        /\ lastOp' = NoOp
        /\ UNCHANGED <<today, legalObligations, evidence, requirements, faults,
                       mailRuns, sweepRuns, docVars, otherVars>>

\* the insert of an iteration, and created.push(obligation)
SyncInsert(q) ==
    LET call == syncCalls[q]
        item == Head(call.items)
    IN  /\ call.pc = "insert"
        /\ legalObligations' = Append(legalObligations,
              NewObligation(Len(legalObligations) + 1, call.companyId,
                            OrNull(call.agencyId), DetectorLoops[call.loop].tip,
                            call.rokDatum, DetectorLoops[call.loop].sourceTable,
                            item.sourceRecordId))
        /\ mailRuns' = Append(mailRuns, NoMail)
        /\ syncCalls' = [syncCalls EXCEPT ![q] =
              NextItem([call EXCEPT !.created = call.created + 1,
                                    !.rokDatum = NULL],
                       Tail(call.items))]
        /\ lastOp' = NoOp
        /\ UNCHANGED <<today, evidence, requirements, faults, sweepRuns, docVars, otherVars>>

\* the expiry update, and the return of {created, details}
SyncExpire(q) ==
    LET call == syncCalls[q] IN
    /\ call.pc = "expire"
    /\ legalObligations' = ExpireOverdue(legalObligations, call.companyId, today)
    /\ syncCalls' = [syncCalls EXCEPT ![q] =
          [IdleSync EXCEPT !.result = "returned", !.expired = TRUE,
                           !.created = call.created]]
    /\ lastOp' = NoOp
    /\ UNCHANGED <<today, evidence, requirements, faults, mailRuns, sweepRuns,
                   docVars, otherVars>>

\* the awaited statement rejects: no detector and no caller has a try/catch,
\* so the rejection ends syncAllObligations
SyncReject(q) ==
    LET call == syncCalls[q] IN
    /\ call.pc \in {"select", "check", "insert", "expire"}
    /\ faults < MaxFaults
    /\ faults' = faults + 1
    /\ syncCalls' = [syncCalls EXCEPT ![q] =
          [IdleSync EXCEPT !.result = "threw", !.failedAt = call.pc]]
    /\ lastOp' = NoOp
    /\ UNCHANGED <<today, legalObligations, evidence, requirements, mailRuns,
                   sweepRuns, docVars, otherVars>>

\* overlapping obligationsSync calls, with an environment that may reject
\* statements
NextSync ==
    \/ RaceTick
    \/ \E q \in Syncers : \E c \in Companies : SyncCall(q, c, AgencyOf(c))
    \/ \E q \in Syncers : SyncSelect(q)
    \/ \E q \in Syncers : SyncCheck(q)
    \/ \E q \in Syncers : SyncInsert(q)
    \/ \E q \in Syncers : SyncExpire(q)
    \/ \E q \in Syncers : SyncReject(q)

SpecSync == Init /\ [][NextSync]_vars

----------------------------------------------------------------------------
(* checkAndSendNotifications, statement by statement *)

\* where a run goes when the loop of its gate has no row left: the next
\* gate's query, or return {sent, errors}
AfterGate(run) ==
    IF run.gate < Len(GateOrder)
    THEN [run EXCEPT !.pc = "query", !.gate = run.gate + 1,
                     !.items = {}, !.cur = NULL]
    ELSE [run EXCEPT !.pc = "idle", !.items = {}, !.cur = NULL,
                     !.result = "returned"]

\* the next iteration of the gate's loop, or the statement after the loop
NextRow(run, items) ==
    IF items = {} THEN AfterGate(run)
    ELSE [run EXCEPT !.pc = "send", !.items = items, !.cur = NULL]

\* sendNotifications is called: checkAndSendNotifications() starts
SweepCall(p) ==
    /\ sweepRuns[p].pc = "idle"
    /\ sweepRuns[p].calls < MaxSweepCalls
    /\ sweepRuns' = [sweepRuns EXCEPT ![p] =
          [IdleSweep EXCEPT !.pc = "query", !.gate = 1,
                            !.calls = sweepRuns[p].calls + 1]]
    /\ lastOp' = NoOp
    /\ UNCHANGED <<today, legalObligations, evidence, requirements, faults,
                   mailRuns, syncCalls, docVars, otherVars>>

\* the query of a gate: the rows it returns are what the loop works on
SweepQuery(p) ==
    LET run   == sweepRuns[p]
        g     == GateOrder[run.gate]
        items == GateItems(legalObligations, g, today)
    IN  /\ run.pc = "query"
        /\ sweepRuns' = [sweepRuns EXCEPT ![p] =
              NextRow([run EXCEPT !.selected = @ \cup {<<i, g>> : i \in items}],
                      items)]
        /\ lastOp' = NoOp
        /\ UNCHANGED <<today, legalObligations, evidence, requirements, faults,
                       mailRuns, syncCalls, docVars, otherVars>>

\* mutant: the loop reads the row again and skips it unless the gate's
\* condition still holds
SweepSendRechecked(p) ==
    LET run == sweepRuns[p]
        g   == GateOrder[run.gate]
    IN  /\ run.pc = "send"
        /\ \E i \in run.items :
              IF GateDue(legalObligations[i], g, today)
              THEN /\ mailRuns' = CountMail(mailRuns, {<<i, g>>})
                   /\ sweepRuns' = [sweepRuns EXCEPT ![p] =
                         [run EXCEPT !.pc = "update", !.cur = i,
                                     !.mailed = @ \cup {<<i, g>>}]]
              ELSE /\ mailRuns' = mailRuns
                   /\ sweepRuns' = [sweepRuns EXCEPT ![p] =
                         NextRow(run, run.items \ {i})]
        /\ lastOp' = NoOp
        /\ UNCHANGED <<today, legalObligations, evidence, requirements, faults,
                       syncCalls, docVars, otherVars>>

\* await sendDeadlineEmail(obligation, N) for a row the query returned (the
\* query has no ORDER BY: the rows come in any order)
SweepSend(p) ==
    LET run == sweepRuns[p]
        g   == GateOrder[run.gate]
    IN  /\ run.pc = "send"
        /\ \E i \in run.items :
              LET mail == sendDeadlineEmail(legalObligations[i], "ok") IN
              /\ mailRuns' = IF mail.attempted # {}
                             THEN CountMail(mailRuns, {<<i, g>>})
                             ELSE mailRuns
              /\ sweepRuns' = [sweepRuns EXCEPT ![p] =
                    [run EXCEPT !.pc = "update", !.cur = i,
                                !.mailed = IF mail.attempted # {}
                                           THEN @ \cup {<<i, g>>} ELSE @]]
        /\ lastOp' = NoOp
        /\ UNCHANGED <<today, legalObligations, evidence, requirements, faults,
                       syncCalls, docVars, otherVars>>

\* the flag update .where(eq(legalObligations.id, obligation.id)), and sent++
SweepUpdate(p) ==
    LET run == sweepRuns[p]
        g   == GateOrder[run.gate]
    IN  /\ run.pc = "update"
        /\ legalObligations' =
              [i \in Ids(legalObligations) |->
                  IF legalObligations[i].id = run.cur
                  THEN SetGate(legalObligations[i], g)
                  ELSE legalObligations[i]]
        /\ sweepRuns' = [sweepRuns EXCEPT ![p] =
              NextRow([run EXCEPT !.sent = run.sent + 1], run.items \ {run.cur})]
        /\ lastOp' = NoOp
        /\ UNCHANGED <<today, evidence, requirements, faults, mailRuns,
                       syncCalls, docVars, otherVars>>

\* overlapping sendNotifications calls next to syncs, with a reliable
\* environment
NextSweep ==
    \/ RaceTick
    \/ \E c \in Companies : SyncAllObligations(c, AgencyOf(c))
    \/ \E p \in Sweepers : SweepCall(p)
    \/ \E p \in Sweepers : SweepQuery(p)
    \/ \E p \in Sweepers : SweepSend(p)
    \/ \E p \in Sweepers : SweepUpdate(p)

SpecSweep == Init /\ [][NextSweep]_vars

\* one sendNotifications call in progress while obligationMarkComplete calls
\* commit, with a reliable environment
NextComplete ==
    \/ RaceTick
    \/ \E c \in Companies : SyncAllObligations(c, AgencyOf(c))
    \/ \E id \in 1..(Len(legalObligations) + 1) : ObligationMarkComplete(id)
    \/ SweepCall(1)
    \/ SweepQuery(1)
    \/ SweepSend(1)
    \/ SweepUpdate(1)

SpecComplete == Init /\ [][NextComplete]_vars

----------------------------------------------------------------------------
(* Risk scorer and DocumentGenerator.generate *)

\* function calculateRisk(e, p, f) { return e * p * f; }
calculateRisk(e, p, f) == e * p * f

\* mutant: the low band ends below 36
getRiskLevelStrict(riskValue) ==
    IF riskValue < 36 THEN "Nizak rizik (prihvatljiv)"
    ELSE IF riskValue <= 70 THEN "Srednji rizik (potrebno pracenje)"
    ELSE "Visok rizik (neprihvatljiv)"

\* getRiskLevel(riskValue); the three texts are written in Latin letters here
getRiskLevel(riskValue) ==
    IF riskValue <= 36 THEN "Nizak rizik (prihvatljiv)"
    ELSE IF riskValue <= 70 THEN "Srednji rizik (potrebno pracenje)"
    ELSE "Visok rizik (neprihvatljiv)"

\* the row data.risks.map((risk, index) => ...) computes for one risk
EnrichedRisk(risk, index) ==
    LET initialRi == calculateRisk(risk.ei, risk.pi, risk.fi)
        residualR == calculateRisk(risk.e, risk.p, risk.f)
    IN  [rowNumber |-> index + 1,
         initialE |-> risk.ei, initialP |-> risk.pi, initialF |-> risk.fi,
         initialRi |-> initialRi,
         initialRiskLevel |-> getRiskLevel(initialRi),
         residualE |-> risk.e, residualP |-> risk.p, residualF |-> risk.f,
         residualR |-> residualR,
         residualRiskLevel |-> getRiskLevel(residualR)]

\* the values a caller passes as a factor: 1..6 and the ones next to them
FactorInputs == 0..MaxFactor

\* a risk assessment as generate reads it: initial and residual factors
RiskInputs ==
    [ei : FactorInputs, pi : FactorInputs, fi : FactorInputs,
     e : FactorInputs, p : FactorInputs, f : FactorInputs]

\* a document request with one risk assessment, nothing else going on
InitRisk ==
    /\ EngineIdle
    /\ risks \in {<<r>> : r \in RiskInputs}
    /\ enrichedRisks = << >>
    /\ templateData = RiskCounts(<< >>)
    /\ FrequencyIdle
    /\ WizardIdle
    /\ WorkflowIdle
    /\ MessagingIdle
    /\ BillingIdle

\* DocumentGenerator.generate, step 2: enrich risks with calculated values
Generate ==
    /\ enrichedRisks' = [k \in 1..Len(risks) |-> EnrichedRisk(risks[k], k - 1)]
    /\ templateData' = RiskCounts(enrichedRisks')
    /\ UNCHANGED <<today, legalObligations, evidence, requirements, faults,
                   lastOp, mailRuns, callVars, risks, otherVars>>

NextRisk == Generate

SpecRisk == InitRisk /\ [][NextRisk]_vars

\* the cadence wordings of a requirement's frequency column, with the month
\* count each one stands for
WordingMonths ==
    {<<<<"g","o","d","i","s","n","j","e">>, 12>>,
     <<<<"p","o","l","u","g","o","d","i","s","n","j","e">>, 6>>,
     <<<<"n","a"," ","6"," ","m","e","s","e","c","i">>, 6>>,
     <<<<"k","v","a","r","t","a","l","n","o">>, 3>>,
     <<<<"n","a"," ","3"," ","m","e","s","e","c","a">>, 3>>,
     <<<<"m","e","s","e","c","n","o">>, 1>>,
     <<<<"n","a"," ","2"," ","g","o","d","i","n","e">>, 24>>,
     <<<<"n","a"," ","3"," ","g","o","d","i","n","e">>, 36>>,
     <<<<"n","a"," ","5"," ","g","o","d","i","n","a">>, 60>>}

\* texts that name no cadence
OtherWordings ==
    {<<"d","n","e","v","n","o">>,
     <<"p","o"," ","p","o","t","r","e","b","i">>,
     <<>>}

\* a wording as it is typed: alone or after a label, with or without a
\* capital first letter, with or without a full stop
Capital(w) ==
    IF w = << >> THEN w
    ELSE [k \in 1..Len(w) |->
            IF k = 1 /\ \E j \in 1..26 : LowerCs[j] = w[1]
            THEN Upper[CHOOSE j \in 1..26 : LowerCs[j] = w[1]]
            ELSE w[k]]

FrequencyInputs ==
    {label \o w \o stop :
        label \in {<< >>, <<"R","o","k",":"," ">>},
        w \in {c : c \in {pair[1] : pair \in WordingMonths} \cup OtherWordings}
               \cup {Capital(c) : c \in {pair[1] : pair \in WordingMonths}
                                        \cup OtherWordings},
        stop \in {<< >>, <<".">>}}

\* a caller about to parse a frequency text
InitFrequency ==
    /\ EngineIdle
    /\ DocsIdle
    /\ frequencyCall \in [frequency : FrequencyInputs, months : {NULL}]
    /\ WizardIdle
    /\ WorkflowIdle
    /\ MessagingIdle
    /\ BillingIdle

\* the call of parseFrequencyToMonths returns
ParseFrequency ==
    /\ frequencyCall.months = NULL
    /\ frequencyCall' =
           [frequencyCall EXCEPT !.months = parseFrequencyToMonths(frequencyCall.frequency)]
    /\ UNCHANGED <<engineVars, callVars, docVars, wizard, documentWorkflow,
                   companyData, messageThreads, messages, messagingCalls,
                   invoices, subscriptionPaidUntil, lastPaid>>

NextFrequency == ParseFrequency

SpecFrequency == InitFrequency /\ [][NextFrequency]_vars

----------------------------------------------------------------------------
(* Messaging procedures, statement by statement *)

\* ctx.agencyId and ctx.companyOwnerId of a user
AgencyIdOf(u) == IF u = "agency" THEN 1 ELSE NULL
CompanyOwnerIdOf(u) == IF u = "company" THEN 1 ELSE NULL

\* the thread ids a caller passes
ThreadIds == 1..Cardinality(Users)

hasAccess(u, thread) ==
    \/ u = "agency" /\ AgencyIdOf(u) = thread.agencyId
    \/ u = "company" /\ CompanyOwnerIdOf(u) = thread.companyId

\* UPDATE messages SET isRead = true WHERE threadId AND senderType AND NOT isRead
MarkMessagesRead(rows, threadId, senderType) ==
    [k \in 1..Len(rows) |->
        IF rows[k].threadId = threadId /\ rows[k].senderType = senderType
           /\ rows[k].isRead = FALSE
        THEN [rows[k] EXCEPT !.isRead = TRUE]
        ELSE rows[k]]

\* sendMessage calls that have not inserted their message yet
SendsPending ==
    Cardinality({u \in Users :
        /\ messagingCalls[u].op = "sendMessage"
        /\ messagingCalls[u].pc # "updateThread"})

MessagingRest ==
    <<engineVars, callVars, docVars, frequencyCall, wizard, documentWorkflow,
      companyData, invoices, subscriptionPaidUntil, lastPaid>>

Jump(u, pc) == messagingCalls' = [messagingCalls EXCEPT ![u].pc = pc]

Return(u) == messagingCalls' = [messagingCalls EXCEPT ![u] = IdleCall]

\* sendMessage is called, with input.threadId or (NULL) for the thread of the
\* caller and the other side
SendMessageCall(u, threadId) ==
    /\ messagingCalls[u].pc = "idle"
    /\ Len(messages) + SendsPending < MaxMessages
    /\ messagingCalls' = [messagingCalls EXCEPT ![u] =
          [pc |-> IF threadId # NULL THEN "selectThread" ELSE "findThread",
           op |-> "sendMessage", threadId |-> threadId]]
    /\ UNCHANGED <<messageThreads, messages, MessagingRest>>

GetThreadCall(u, threadId) ==
    /\ messagingCalls[u].pc = "idle"
    /\ messagingCalls' = [messagingCalls EXCEPT ![u] =
          [pc |-> "selectThread", op |-> "getThread", threadId |-> threadId]]
    /\ UNCHANGED <<messageThreads, messages, MessagingRest>>

MarkReadCall(u, threadId) ==
    /\ messagingCalls[u].pc = "idle"
    /\ messagingCalls' = [messagingCalls EXCEPT ![u] =
          [pc |-> "selectThread", op |-> "markRead", threadId |-> threadId]]
    /\ UNCHANGED <<messageThreads, messages, MessagingRest>>

\* SELECT the thread by id: NOT_FOUND without a row, FORBIDDEN without access
\* (markRead returns without updating instead); getThread also fetches the
\* thread's messages here
SelectThread(u) ==
    /\ messagingCalls[u].pc = "selectThread"
    /\ LET call == messagingCalls[u] IN
       IF call.threadId \notin 1..Len(messageThreads)
       THEN Return(u)
       ELSE IF ~hasAccess(u, messageThreads[call.threadId])
       THEN Return(u)
       ELSE IF call.op = "sendMessage"
       THEN Jump(u, "insertMessage")
       ELSE Jump(u, "updateMessages")
    /\ UNCHANGED <<messageThreads, messages, MessagingRest>>

\* sendMessage, new thread: SELECT the thread of this agency-company pair
FindThread(u) ==
    /\ messagingCalls[u].pc = "findThread"
    /\ LET existing == {t \in 1..Len(messageThreads) :
                           /\ messageThreads[t].agencyId = 1
                           /\ messageThreads[t].companyId = 1}
       IN  IF existing # {}
           THEN \E t \in existing :
                   messagingCalls' = [messagingCalls EXCEPT
                       ![u].threadId = t, ![u].pc = "insertMessage"]
           ELSE Jump(u, "insertThread")
    /\ UNCHANGED <<messageThreads, messages, MessagingRest>>

\* INSERT INTO message_threads: the unread counters default to 0
InsertThread(u) ==
    /\ messagingCalls[u].pc = "insertThread"
    /\ messageThreads' = Append(messageThreads,
          [id |-> Len(messageThreads) + 1, agencyId |-> 1, companyId |-> 1,
           unreadByAgency |-> 0, unreadByCompany |-> 0])
    /\ messagingCalls' = [messagingCalls EXCEPT
          ![u].threadId = Len(messageThreads) + 1, ![u].pc = "insertMessage"]
    /\ UNCHANGED <<messages, MessagingRest>>

\* INSERT INTO messages: isRead defaults to false
InsertMessage(u) ==
    /\ messagingCalls[u].pc = "insertMessage"
    /\ messages' = Append(messages,
          [threadId |-> messagingCalls[u].threadId, senderType |-> u,
           isRead |-> FALSE])
    /\ Jump(u, "updateThread")
    /\ UNCHANGED <<messageThreads, MessagingRest>>

\* UPDATE message_threads SET unreadBy<other side> = unreadBy<other side> + 1
UpdateThread(u) ==
    /\ messagingCalls[u].pc = "updateThread"
    /\ messageThreads' = [messageThreads EXCEPT ![messagingCalls[u].threadId] =
          IF u = "agency"
          THEN [@ EXCEPT !.unreadByCompany = @ + 1]
          ELSE [@ EXCEPT !.unreadByAgency = @ + 1]]
    /\ Return(u)
    /\ UNCHANGED <<messages, MessagingRest>>

\* getThread and markRead: mark the other side's unread messages as read
UpdateMessages(u) ==
    /\ messagingCalls[u].pc = "updateMessages"
    /\ messages' = MarkMessagesRead(messages, messagingCalls[u].threadId,
                                    IF u = "agency" THEN "company" ELSE "agency")
    /\ Jump(u, "resetCounter")
    /\ UNCHANGED <<messageThreads, MessagingRest>>

\* getThread and markRead: UPDATE message_threads SET unreadBy<own side> = 0
ResetCounter(u) ==
    /\ messagingCalls[u].pc = "resetCounter"
    /\ messageThreads' = [messageThreads EXCEPT ![messagingCalls[u].threadId] =
          IF u = "agency"
          THEN [@ EXCEPT !.unreadByAgency = 0]
          ELSE [@ EXCEPT !.unreadByCompany = 0]]
    /\ Return(u)
    /\ UNCHANGED <<messages, MessagingRest>>

NextMessaging ==
    \E u \in Users :
        \/ \E t \in ThreadIds \cup {NULL} : SendMessageCall(u, t)
        \/ \E t \in ThreadIds : GetThreadCall(u, t)
        \/ \E t \in ThreadIds : MarkReadCall(u, t)
        \/ SelectThread(u)
        \/ FindThread(u)
        \/ InsertThread(u)
        \/ InsertMessage(u)
        \/ UpdateThread(u)
        \/ UpdateMessages(u)
        \/ ResetCounter(u)

SpecMessaging == InitIdle /\ [][NextMessaging]_vars

----------------------------------------------------------------------------
(* Invoices *)

BillingCycles == {"monthly", "annual"}

\* setFullYear(getFullYear() + n), in the calendar of AddMonths
AddYears(d, n) == d + 365 * n

BillingRest ==
    <<legalObligations, evidence, requirements, faults, lastOp, mailRuns,
      callVars, docVars, frequencyCall, wizard, documentWorkflow, companyData,
      messageThreads, messages, messagingCalls>>

\* createInvoice: a new invoice of the company, status 'issued'
createInvoice(companyId, billingCycle) ==
    /\ companyId \in DOMAIN companies
    /\ Len(invoices) < MaxInvoices
    /\ invoices' = Append(invoices,
          [id |-> Len(invoices) + 1, companyId |-> companyId,
           billingCycle |-> billingCycle, status |-> "issued"])
    /\ UNCHANGED <<today, subscriptionPaidUntil, lastPaid, BillingRest>>

\* the new subscription end date markAsPaid computes
NewPaidUntil(invoice, paidUntil, now) ==
    LET currentPaidUntil == IF paidUntil # NULL THEN paidUntil ELSE now
        baseDate == IF currentPaidUntil > now THEN currentPaidUntil ELSE now
    IN  IF invoice.billingCycle = "annual"
        THEN AddYears(baseDate, 1)
        ELSE AddMonths(baseDate, 1)

\* markAsPaid; throws when there is no such invoice
markAsPaid(invoiceId) ==
    /\ invoiceId \in 1..Len(invoices)
    /\ lastPaid.calls < MaxPayments
    /\ LET invoice == invoices[invoiceId]
           c == invoice.companyId
       IN  /\ invoices' = [invoices EXCEPT ![invoiceId].status = "paid"]
           /\ IF c \in DOMAIN companies
              THEN subscriptionPaidUntil' = [subscriptionPaidUntil EXCEPT ![c] =
                       NewPaidUntil(invoice, subscriptionPaidUntil[c], today)]
              ELSE UNCHANGED subscriptionPaidUntil
           /\ lastPaid' = [invoiceId |-> invoiceId,
                           wasPaid |-> invoice.status = "paid",
                           before |-> subscriptionPaidUntil[c],
                           after |-> subscriptionPaidUntil'[c],
                           calls |-> lastPaid.calls + 1]
    /\ UNCHANGED <<today, BillingRest>>

NextBilling ==
    \/ Tick
    \/ \E c \in Companies, cycle \in BillingCycles : createInvoice(c, cycle)
    \/ \E id \in 1..MaxInvoices : markAsPaid(id)

SpecBilling == InitIdle /\ [][NextBilling]_vars

----------------------------------------------------------------------------
(* Document workflow *)

TipDokumenta == {"akt_o_proceni_rizika", "obrazac_1"}

\* the fields of the missing list, for a company that exists
identifyMissingData(onFile, companyId, tipDokumenta) ==
    (CommonFields \ onFile[companyId])
       \cup (IF tipDokumenta = "akt_o_proceni_rizika"
             THEN RiskFields \ onFile[companyId]
             ELSE {})

\* missing.length === 0 ? 'u_pripremi' : 'nedostaju_podaci'
AnalysedStatus(missing) ==
    IF Cardinality(missing) = 0 THEN "u_pripremi" ELSE "nedostaju_podaci"

\* UPDATE document_workflow SET status, nedostajuciPodaci WHERE id = id
updateWorkflowStatus(rows, id, status, missing) ==
    [k \in 1..Len(rows) |->
        IF rows[k].id = id
        THEN [rows[k] EXCEPT !.status = status, !.nedostajuciPodaci = missing]
        ELSE rows[k]]

WorkflowRest ==
    <<engineVars, callVars, docVars, frequencyCall, wizard,
      messageThreads, messages, messagingCalls, invoices, subscriptionPaidUntil,
      lastPaid>>

\* a company with its addresses on file; positions, workers, risk assessments
\* and the activity code may or may not be there yet
InitWorkflow ==
    /\ EngineIdle
    /\ DocsIdle
    /\ FrequencyIdle
    /\ WizardIdle
    /\ documentWorkflow = << >>
    /\ companyData \in [WorkflowCompanies ->
          {{"pib", "address", "director"} \cup extra :
              extra \in SUBSET {"work_positions", "workers",
                                "risk_assessments", "activity_code"}}]
    /\ MessagingIdle
    /\ BillingIdle

\* potpisaoIme starts as null, here ""
createWorkflow(companyId, tipDokumenta) ==
    /\ Len(documentWorkflow) < MaxWorkflows
    /\ LET missing == identifyMissingData(companyData, companyId, tipDokumenta)
       IN  documentWorkflow' = Append(documentWorkflow,
               [id |-> Len(documentWorkflow) + 1, companyId |-> companyId,
                tipDokumenta |-> tipDokumenta, status |-> AnalysedStatus(missing),
                nedostajuciPodaci |-> missing, potpisaoIme |-> ""])
    /\ UNCHANGED <<companyData, WorkflowRest>>

markSigned(id, potpisaoIme) ==
    /\ id \in 1..Len(documentWorkflow)
    /\ documentWorkflow' = [documentWorkflow EXCEPT
           ![id].status = "potpisan", ![id].potpisaoIme = potpisaoIme]
    /\ UNCHANGED <<companyData, WorkflowRest>>

\* throws 'Workflow not found' when there is no such row
reanalyzeWorkflow(workflowId) ==
    /\ workflowId \in 1..Len(documentWorkflow)
    /\ LET workflow == documentWorkflow[workflowId]
           missing  == identifyMissingData(companyData, workflow.companyId,
                                           workflow.tipDokumenta)
       IN  documentWorkflow' = updateWorkflowStatus(documentWorkflow, workflowId,
                                                    AnalysedStatus(missing), missing)
    /\ UNCHANGED <<companyData, WorkflowRest>>

\* new data is uploaded for the company
UploadData(companyId, field) ==
    /\ field \notin companyData[companyId]
    /\ companyData' = [companyData EXCEPT ![companyId] = @ \cup {field}]
    /\ UNCHANGED <<documentWorkflow, WorkflowRest>>

NextWorkflow ==
    \/ \E c \in WorkflowCompanies, tip \in TipDokumenta : createWorkflow(c, tip)
    \/ \E id \in 1..MaxWorkflows : markSigned(id, "direktor")
    \/ \E id \in 1..MaxWorkflows : reanalyzeWorkflow(id)
    \/ \E c \in WorkflowCompanies, field \in CommonFields \cup RiskFields :
          UploadData(c, field)

SpecWorkflow == InitWorkflow /\ [][NextWorkflow]_vars

----------------------------------------------------------------------------
(* RiskAssessmentWizard *)

\* the values the user gives the E slider; P and F are left at 1
WizardFactors == 1..MaxWizardFactor

\* calculateRiskIndex of the input components: the product of the factors
calculateRiskIndex(e, p, f) == e * p * f

\* Map.get(riskId) || 0
HazardIdOf(map, riskId) ==
    IF \E pair \in map : pair[1] = riskId
    THEN (CHOOSE pair \in map : pair[1] = riskId)[2]
    ELSE 0

\* new Map(prev).set(riskId, hazardId)
MapSet(map, riskId, hazardId) ==
    {pair \in map : pair[1] # riskId} \cup {<<riskId, hazardId>>}

\* next.delete(riskId)
MapDelete(map, riskId) == {pair \in map : pair[1] # riskId}

\* prev.filter((r) => r.id !== riskId)
FilterRisks(list, riskId) ==
    SelectSeq(list, LAMBDA r : r.id # riskId)

WizardRest ==
    <<engineVars, callVars, docVars, frequencyCall, documentWorkflow, companyData,
      messageThreads, messages, messagingCalls, invoices, subscriptionPaidUntil,
      lastPaid>>

\* a step of the wizard other than handleComplete
WizardStep(next) ==
    /\ wizard' = [next EXCEPT !.completed = << >>]
    /\ UNCHANGED WizardRest

handleHazardSelect(hazardId) ==
    /\ wizard.showForm /\ wizard.formStep = "hazard"
    /\ \E selected \in hazards :
           /\ selected.id = hazardId
           /\ WizardStep([wizard EXCEPT !.draft.hazardId = hazardId,
                                         !.draft.hazardCode = selected.code])

\* RiskInputs reports the factors and their index
handleInitialRiskChange(values) ==
    /\ wizard.showForm /\ wizard.formStep = "initial"
    /\ WizardStep([wizard EXCEPT !.draft.initialE = values.e,
                                  !.draft.initialP = values.p,
                                  !.draft.initialF = values.f,
                                  !.draft.initialRi = values.ri])

handleMeasuresChange(value) ==
    /\ wizard.showForm /\ wizard.formStep = "measures"
    /\ WizardStep([wizard EXCEPT !.draft.correctiveMeasures = value])

\* ResidualRiskInputs reports an edit of a residual factor, valid when the
\* residual index is below the initialRiskIndex it was given
handleResidualRiskChange(values) ==
    /\ wizard.showForm /\ wizard.formStep = "residual"
    /\ WizardStep([wizard EXCEPT !.draft.residualE = values.e,
                                  !.draft.residualP = values.p,
                                  !.draft.residualF = values.f,
                                  !.draft.residualR = values.r,
                                  !.draft.residualValid = values.valid])

\* what ResidualRiskInputs reports for the factors e, p, f
ResidualValues(e, p, f, initialRiskIndex) ==
    [e |-> e, p |-> p, f |-> f, r |-> calculateRiskIndex(e, p, f),
     valid |-> calculateRiskIndex(e, p, f) < initialRiskIndex]

goToNextFormStep ==
    /\ wizard.showForm
    /\ \/ /\ wizard.formStep = "hazard"
          /\ wizard.draft.hazardId # NULL
          /\ WizardStep([wizard EXCEPT !.formStep = "initial"])
       \/ /\ wizard.formStep = "initial"
          /\ WizardStep([wizard EXCEPT !.formStep = "measures"])
       \/ /\ wizard.formStep = "measures"
          /\ ~(wizard.draft.correctiveMeasures < 20)
          /\ WizardStep([wizard EXCEPT !.formStep = "residual"])

goToPrevFormStep ==
    /\ wizard.showForm
    /\ \/ /\ wizard.formStep = "initial"
          /\ WizardStep([wizard EXCEPT !.formStep = "hazard"])
       \/ /\ wizard.formStep = "measures"
          /\ WizardStep([wizard EXCEPT !.formStep = "initial"])
       \/ /\ wizard.formStep = "residual"
          /\ WizardStep([wizard EXCEPT !.formStep = "measures"])

\* -(risks.length + 1)
NewRiskId(list) == -(Len(list) + 1)

handleAddRisk ==
    /\ wizard.showForm /\ wizard.formStep = "residual"
    /\ wizard.draft.residualValid
    /\ Len(wizard.risks) < MaxWizardRisks
    /\ LET draft   == wizard.draft
           newId   == NewRiskId(wizard.risks)
           newRisk == [id |-> newId, hazardCode |-> draft.hazardCode,
                       initialE |-> draft.initialE, initialP |-> draft.initialP,
                       initialF |-> draft.initialF, initialRi |-> draft.initialRi,
                       correctiveMeasures |-> draft.correctiveMeasures,
                       residualE |-> draft.residualE, residualP |-> draft.residualP,
                       residualF |-> draft.residualF, residualR |-> draft.residualR]
       IN  WizardStep([wizard EXCEPT
               !.risks = Append(@, newRisk),
               !.riskHazardIds = MapSet(@, newId, draft.hazardId),
               !.draft = emptyDraft,
               !.formStep = "hazard",
               !.showForm = FALSE])

handleDeleteRisk(riskId) ==
    /\ \E k \in 1..Len(wizard.risks) : wizard.risks[k].id = riskId
    /\ WizardStep([wizard EXCEPT
           !.risks = FilterRisks(@, riskId),
           !.riskHazardIds = MapDelete(@, riskId)])

\* the Cancel button of the first step
CancelForm ==
    /\ wizard.showForm /\ wizard.formStep = "hazard"
    /\ WizardStep([wizard EXCEPT !.showForm = FALSE, !.draft = emptyDraft,
                                  !.formStep = "hazard"])

\* the button shown in place of the form
ShowForm ==
    /\ ~wizard.showForm
    /\ WizardStep([wizard EXCEPT !.showForm = TRUE])

handleComplete ==
    /\ Len(wizard.risks) # 0
    /\ wizard' = [wizard EXCEPT !.completed =
          [k \in 1..Len(wizard.risks) |->
              LET r == wizard.risks[k] IN
              [hazardId |-> HazardIdOf(wizard.riskHazardIds, r.id),
               hazardCode |-> r.hazardCode,
               initialE |-> r.initialE, initialP |-> r.initialP,
               initialF |-> r.initialF,
               correctiveMeasures |-> r.correctiveMeasures,
               residualE |-> r.residualE, residualP |-> r.residualP,
               residualF |-> r.residualF]]]
    /\ UNCHANGED WizardRest

NextWizard ==
    \/ \E h \in {x.id : x \in hazards} : handleHazardSelect(h)
    \/ \E e \in WizardFactors :
          handleInitialRiskChange([e |-> e, p |-> 1, f |-> 1,
                                   ri |-> calculateRiskIndex(e, 1, 1)])
    \/ \E value \in {0, 20} : handleMeasuresChange(value)
    \/ \E e \in WizardFactors :
          handleResidualRiskChange(ResidualValues(e, 1, 1, wizard.draft.initialRi))
    \/ goToNextFormStep
    \/ goToPrevFormStep
    \/ handleAddRisk
    \/ \E k \in 1..Len(wizard.risks) : handleDeleteRisk(wizard.risks[k].id)
    \/ CancelForm
    \/ ShowForm
    \/ handleComplete

SpecWizard == InitIdle /\ [][NextWizard]_vars

\* the residual factors of a document with several hazards: products on both
\* sides of the band limits 36 and 70
CountInputs ==
    [ei : {6}, pi : {6}, fi : {6}, e : 1..6, p : {6}, f : {1, 2}]

\* a document request with up to MaxRisks risk assessments
InitCount ==
    /\ EngineIdle
    /\ \E n \in 0..MaxRisks : risks \in [1..n -> CountInputs]
    /\ enrichedRisks = << >>
    /\ templateData = RiskCounts(<< >>)
    /\ FrequencyIdle
    /\ WizardIdle
    /\ WorkflowIdle
    /\ MessagingIdle
    /\ BillingIdle

NextCount == Generate

SpecCount == InitCount /\ [][NextCount]_vars

----------------------------------------------------------------------------
(* Properties *)

\* every id a row can get: one row per source record
RowIds == 1..(Len(InspectionTables[8]) + Len(InspectionTables[9])
              + Len(InspectionTables[10]) + Len(RequirementTables.medical)
              + Len(RequirementTables.training))

HasGate(pairs, i) == {g \in Gates : <<i, g>> \in pairs}

\* C1: a sync that directly follows a sync of the same company, the source
\* records unchanged, returns created = 0 and leaves the number of rows as
\* the first sync left it.
C1_SecondSyncCreatesNothing ==
    (lastOp.kind = "sync" /\ lastOp.repeat) =>
        /\ lastOp.created = 0
        /\ Len(legalObligations) = lastOp.rowsBefore

C1_Witness ==
    /\ lastOp.kind = "sync"
    /\ lastOp.repeat
    /\ lastOp.prevCreated > 0

\* C2: no step of any operation removes a row or turns one of its four
\* notification flags from true back to false (so each flag changes at most
\* once, from false to true).
C2_FlagsNeverReset ==
    [][\A i \in Ids(legalObligations) :
          /\ i \in Ids(legalObligations')
          /\ legalObligations[i].notifikovanoDana30
                => legalObligations'[i].notifikovanoDana30
          /\ legalObligations[i].notifikovanoDana7
                => legalObligations'[i].notifikovanoDana7
          /\ legalObligations[i].notifikovanoDana1
                => legalObligations'[i].notifikovanoDana1
          /\ legalObligations[i].notifikovanoIsteklo
                => legalObligations'[i].notifikovanoIsteklo]_vars

\* a row that has its 30-day flag, a later gate's flag set after it, and has
\* been completed
C2_Witness ==
    \E i \in Ids(legalObligations) :
        /\ legalObligations[i].notifikovanoDana30
        /\ legalObligations[i].notifikovanoDana7
        /\ legalObligations[i].status = "zavrsen"

\* C3: for each obligation and gate, the gate's emails go out in at most one
\* sweep, whatever the outcome of the sends and of the flag update.
C3_GateMailedInOneRunOnly ==
    \A i \in 1..Len(mailRuns) : \A g \in Gates : mailRuns[i][g] <= 1

\* C4: a sweep processes (and mails) an obligation in gate N only if, in the
\* state the sweep starts from, the row is 'aktivan', its flag for N is false
\* and its due date is in N's window; an obligation due today is in no gate;
\* an 'aktivan' obligation due in 5 days with the 30-day flag set and the 7-day
\* flag clear is in gate 7 and no other, and is mailed unless a statement
\* rejects or its company row is missing.
C4_GatesFireInTheirWindow ==
    [][lastOp'.kind = "notify" =>
        /\ lastOp'.mailed \subseteq lastOp'.selected
        /\ \A p \in lastOp'.selected :
              LET ob == legalObligations[p[1]] IN
              /\ p[1] \in Ids(legalObligations)
              /\ ob.status = "aktivan"
              /\ p[2] = 30 => /\ ~ob.notifikovanoDana30
                              /\ today < ob.rokDatum /\ ob.rokDatum <= today + 30
              /\ p[2] = 7  => /\ ~ob.notifikovanoDana7
                              /\ today < ob.rokDatum /\ ob.rokDatum <= today + 7
              /\ p[2] = 1  => /\ ~ob.notifikovanoDana1
                              /\ today < ob.rokDatum /\ ob.rokDatum <= today + 1
              /\ p[2] = 0  => /\ ~ob.notifikovanoIsteklo
                              /\ ob.rokDatum < today
        /\ \A i \in Ids(legalObligations) :
              LET ob == legalObligations[i] IN
              /\ ob.rokDatum = today => HasGate(lastOp'.selected, i) = {}
              /\ ( /\ ob.status = "aktivan"
                   /\ ob.rokDatum = today + 5
                   /\ ob.notifikovanoDana30
                   /\ ~ob.notifikovanoDana7 )
                 => /\ HasGate(lastOp'.selected, i) = {7}
                    /\ (lastOp'.raised = {} /\ lastOp'.missing = {})
                          => HasGate(lastOp'.mailed, i) = {7}
    ]_vars

\* after a sweep: a row due in 5 days that had its 30-day flag was mailed the
\* 7-day reminder alone
C4_Witness ==
    /\ lastOp.kind = "notify"
    /\ \E i \in Ids(legalObligations) :
          /\ legalObligations[i].rokDatum = today + 5
          /\ legalObligations[i].notifikovanoDana30
          /\ HasGate(lastOp.mailed, i) = {7}

\* C5: an obligation whose due date has passed and that is not completed
\* eventually has notifikovanoIsteklo = true (or is completed), sweeps being
\* run again and again with no statement rejecting, whatever syncs interleave.
C5_ExpiryNoticeEventually ==
    \A i \in RowIds :
        ( /\ i \in Ids(legalObligations)
          /\ legalObligations[i].rokDatum < today
          /\ legalObligations[i].status # "zavrsen" )
        ~> ( /\ i \in Ids(legalObligations)
             /\ \/ legalObligations[i].notifikovanoIsteklo
                \/ legalObligations[i].status = "zavrsen" )

\* C6: no step changes the status of a row whose status is 'istekao'.
C6_IstekaoIsTerminal ==
    [][\A i \in Ids(legalObligations) :
          legalObligations[i].status = "istekao"
              => legalObligations'[i].status = "istekao"]_vars

\* C7: a sync or a sweep that starts when a row is 'zavrsen' leaves the row
\* as it is and neither processes it in a gate nor mails for it.
C7_CompletedIsLeftAlone ==
    [][lastOp'.kind \in {"sync", "notify"} =>
        \A i \in Ids(legalObligations) :
            legalObligations[i].status = "zavrsen" =>
                /\ i \in Ids(legalObligations')
                /\ legalObligations'[i] = legalObligations[i]
                /\ HasGate(lastOp'.selected, i) = {}
                /\ HasGate(lastOp'.mailed, i) = {}]_vars

\* after a sweep: a completed row inside the 7-day window with its flag clear
C7_Witness ==
    /\ lastOp.kind = "notify"
    /\ lastOp.selected # {}
    /\ \E i \in Ids(legalObligations) :
          /\ legalObligations[i].status = "zavrsen"
          /\ ~legalObligations[i].notifikovanoDana7
          /\ today < legalObligations[i].rokDatum
          /\ legalObligations[i].rokDatum <= today + 7

\* the optional filters of the two queries
CompanyFilters == {NULL} \cup Companies
AgencyFilters == {NULL} \cup DOMAIN agencies

\* C8: an 'istekao' row is returned by no obligationsUpcoming query and by
\* every obligationsOverdue query whose filters it matches; no row is returned
\* by an upcoming and by an overdue query at the same date.
C8_ExpiredIsOverdueNotUpcoming ==
    /\ \A i \in Ids(legalObligations) :
          legalObligations[i].status = "istekao" =>
              \A c \in CompanyFilters, a \in AgencyFilters :
                  /\ i \notin obligationsUpcoming(legalObligations, c, a, today)
                  /\ ( /\ c \in {NULL, legalObligations[i].companyId}
                       /\ a \in {NULL, legalObligations[i].agencyId} )
                     => i \in obligationsOverdue(legalObligations, c, a, today)
    /\ \A c1 \in CompanyFilters, a1 \in AgencyFilters :
       \A c2 \in CompanyFilters, a2 \in AgencyFilters :
          obligationsUpcoming(legalObligations, c1, a1, today)
             \cap obligationsOverdue(legalObligations, c2, a2, today) = {}

\* an 'istekao' row that the overdue query returns, next to an upcoming one
C8_Witness ==
    /\ \E i \in Ids(legalObligations) :
          /\ legalObligations[i].status = "istekao"
          /\ i \in obligationsOverdue(legalObligations,
                                      legalObligations[i].companyId, NULL, today)
    /\ obligationsUpcoming(legalObligations, NULL, NULL, today) # {}

\* C9: syncAllObligations(companyId) keeps every existing row, changes no
\* column of it but status, and sets status to 'istekao' for exactly the rows
\* of companyId that are 'aktivan' with a due date before today.
C9_SyncOnlyExpires ==
    [][lastOp'.kind = "sync" =>
        \A i \in Ids(legalObligations) :
            LET old == legalObligations[i] IN
            /\ i \in Ids(legalObligations')
            /\ legalObligations'[i] =
                  IF /\ old.companyId = lastOp'.companyId
                     /\ old.status = "aktivan"
                     /\ old.rokDatum < today
                  THEN [old EXCEPT !.status = "istekao"]
                  ELSE old]_vars

\* after a sync: a row of the synced company is 'istekao' without an expiry
\* notice (only a sync leaves that) and keeps its 30-day flag, next to a row
\* of the other company
C9_Witness ==
    /\ lastOp.kind = "sync"
    /\ \E i \in Ids(legalObligations) :
          /\ legalObligations[i].companyId = lastOp.companyId
          /\ legalObligations[i].status = "istekao"
          /\ ~legalObligations[i].notifikovanoIsteklo
          /\ legalObligations[i].notifikovanoDana30
    /\ \E j \in Ids(legalObligations) :
          /\ legalObligations[j].companyId # lastOp.companyId
          /\ legalObligations[j].status = "aktivan"

\* C10: every exception raised while an obligation is processed in a sweep
\* (recipient lookup, send or flag update) is counted in errors, the other
\* obligations are counted in sent, and the sweep returns.
C10_EveryExceptionCounted ==
    lastOp.kind = "notify" =>
        /\ lastOp.errors = Cardinality(lastOp.raised)
        /\ lastOp.sent = Cardinality(lastOp.selected \ lastOp.raised)

\* C12: when the sends of a gate's email fail, the company's first, the
\* agency's email is still attempted if the obligation has an agency with an
\* address, the loop body does not throw, and the gate's flag is set; and a
\* sweep never selects an obligation in a gate whose flag is set.
C12_SendFailureKeepsAgencyAndFlag ==
    [][lastOp'.kind = "notify" =>
        /\ \A p \in lastOp'.failed :
              LET ob == legalObligations[p[1]] IN
              /\ ( /\ ob.agencyId \in DOMAIN agencies
                   /\ agencies[ob.agencyId].email # "" )
                 => p \in lastOp'.agencyMailed
              /\ p \notin lastOp'.thrown
              /\ Flag(legalObligations'[p[1]], p[2])
        /\ \A i \in Ids(legalObligations) : \A g \in Gates :
              Flag(legalObligations[i], g) => <<i, g>> \notin lastOp'.selected
    ]_vars

\* after a sweep: the sends failed for an obligation with an agency, the
\* agency's email was attempted and the flag is set
C12_Witness ==
    /\ lastOp.kind = "notify"
    /\ \E p \in lastOp.failed :
          /\ legalObligations[p[1]].agencyId \in DOMAIN agencies
          /\ p \in lastOp.agencyMailed
          /\ Flag(legalObligations[p[1]], p[2])

\* C13: every obligation and gate for which a sendEmail call failed is
\* counted in the errors of the sweep's result.
C13_DeliveryFailureCounted ==
    lastOp.kind = "notify" => lastOp.errors >= Cardinality(lastOp.failed)

\* C14: an obligation whose company row is not found is skipped: no email is
\* sent for it, its flag is not set, and it is counted as an error.
C14_MissingCompanySkipped ==
    lastOp.kind = "notify" =>
        \A p \in lastOp.missing :
            /\ p \notin lastOp.mailed
            /\ ~Flag(legalObligations[p[1]], p[2])
            /\ p \in lastOp.thrown

\* the row as the detector inserted it: 'aktivan', no flag set
Fresh(ob) ==
    [ob EXCEPT !.status = "aktivan",
               !.notifikovanoDana30 = FALSE, !.notifikovanoDana7 = FALSE,
               !.notifikovanoDana1 = FALSE, !.notifikovanoIsteklo = FALSE]

\* C18: the window of gate 1 lies in that of gate 7, which lies in that of
\* gate 30; and a sweep that starts with an 'aktivan' obligation due tomorrow
\* with no flag set selects it in gates 30, 7 and 1 and, undisturbed, sends
\* the three reminders and sets the three flags.
C18_NestedGatesFireTogether ==
    [][lastOp'.kind = "notify" =>
        \A i \in Ids(legalObligations) :
            LET ob == legalObligations[i] IN
            /\ GateDue(Fresh(ob), 1, today) => GateDue(Fresh(ob), 7, today)
            /\ GateDue(Fresh(ob), 7, today) => GateDue(Fresh(ob), 30, today)
            /\ ( /\ ob.status = "aktivan"
                 /\ ob.rokDatum = today + 1
                 /\ ~ob.notifikovanoDana30
                 /\ ~ob.notifikovanoDana7
                 /\ ~ob.notifikovanoDana1 )
               => /\ HasGate(lastOp'.selected, i) = {30, 7, 1}
                  /\ (lastOp'.raised = {} /\ lastOp'.missing = {})
                        => /\ HasGate(lastOp'.mailed, i) = {30, 7, 1}
                           /\ lastOp'.sent >= 3
                           /\ legalObligations'[i].notifikovanoDana30
                           /\ legalObligations'[i].notifikovanoDana7
                           /\ legalObligations'[i].notifikovanoDana1
    ]_vars

\* after a sweep: three reminders went out for a row due tomorrow
C18_Witness ==
    /\ lastOp.kind = "notify"
    /\ lastOp.sent >= 3
    /\ \E i \in Ids(legalObligations) :
          /\ legalObligations[i].rokDatum = today + 1
          /\ HasGate(lastOp.mailed, i) = {30, 7, 1}
          /\ legalObligations[i].notifikovanoDana30
          /\ legalObligations[i].notifikovanoDana7
          /\ legalObligations[i].notifikovanoDana1

\* C11: a syncAllObligations call in which the existence query or the insert
\* of one source record rejects still ends by returning its summary, after
\* the expiry update has run.
C11_SyncSurvivesRecordFailure ==
    \A q \in Syncers :
        ( /\ syncCalls[q].pc = "idle"
          /\ syncCalls[q].failedAt \in {"check", "insert"} )
        => /\ syncCalls[q].result = "returned"
           /\ syncCalls[q].expired

\* C15: no two rows of legal_obligations have the same companyId,
\* sourceTable and sourceRecordId.
C15_OneRowPerSourceRecord ==
    \A i \in Ids(legalObligations) : \A j \in Ids(legalObligations) :
        ( /\ legalObligations[i].companyId = legalObligations[j].companyId
          /\ legalObligations[i].sourceTable = legalObligations[j].sourceTable
          /\ legalObligations[i].sourceRecordId = legalObligations[j].sourceRecordId )
        => i = j

\* the run has taken <<i, g>> through its loop: selected, and no longer to do
Processed(run, i, g) ==
    /\ <<i, g>> \in run.selected
    /\ ~(run.pc \in {"send", "update"} /\ GateOrder[run.gate] = g /\ i \in run.items)

\* C16: when two runs have both selected an obligation in gate 30 (its flag
\* false in both queries) and both have taken it through their loop, the
\* 30-day reminder has been sent twice, the flag is true, and both runs have
\* counted it as sent with no error.
C16_BothRunsSendTheReminder ==
    \A i \in Ids(legalObligations) :
        ( /\ Processed(sweepRuns[1], i, 30)
          /\ Processed(sweepRuns[2], i, 30) )
        => /\ mailRuns[i][30] = 2
           /\ <<i, 30>> \in sweepRuns[1].mailed \cap sweepRuns[2].mailed
           /\ legalObligations[i].notifikovanoDana30
           /\ sweepRuns[1].sent >= 1 /\ sweepRuns[1].errors = 0
           /\ sweepRuns[2].sent >= 1 /\ sweepRuns[2].errors = 0

\* both runs have returned, having sent the same 30-day reminder
C16_Witness ==
    /\ sweepRuns[1].result = "returned" /\ sweepRuns[1].pc = "idle"
    /\ sweepRuns[2].result = "returned" /\ sweepRuns[2].pc = "idle"
    /\ \E i \in Ids(legalObligations) :
          /\ <<i, 30>> \in sweepRuns[1].mailed \cap sweepRuns[2].mailed
          /\ mailRuns[i][30] = 2
          /\ legalObligations[i].notifikovanoDana30

\* C17: once obligationMarkComplete has committed, no step of a run in
\* progress sends a notification for the obligation or changes its status.
C17_NoGateAfterCompletion ==
    [][\A i \in Ids(legalObligations) :
          legalObligations[i].status = "zavrsen" =>
              /\ legalObligations'[i].status = "zavrsen"
              /\ mailRuns'[i] = mailRuns[i]]_vars

\* the factors the scorer is specified for
ValidFactors == 1..6

\* the band of a level text
Band(level) ==
    CASE level = "Nizak rizik (prihvatljiv)" -> "low"
      [] level = "Srednji rizik (potrebno pracenje)" -> "medium"
      [] level = "Visok rizik (neprihvatljiv)" -> "high"

\* C19: for factors in 1..6 the risk value of a generated row is e*p*f, its
\* band is low iff the value is <= 36, medium iff 37 <= value <= 70 and high
\* iff value > 70; the initial and the residual triple of a row get the same
\* band whenever their products are equal.
C19_RiskIsProductBandByValue ==
    \A k \in 1..Len(enrichedRisks) :
        LET in  == risks[k]
            out == enrichedRisks[k]
        IN  /\ {in.ei, in.pi, in.fi} \subseteq ValidFactors =>
                  /\ out.initialRi = in.ei * in.pi * in.fi
                  /\ Band(out.initialRiskLevel) = "low" <=> out.initialRi <= 36
                  /\ Band(out.initialRiskLevel) = "medium"
                        <=> (37 <= out.initialRi /\ out.initialRi <= 70)
                  /\ Band(out.initialRiskLevel) = "high" <=> out.initialRi > 70
            /\ {in.e, in.p, in.f} \subseteq ValidFactors =>
                  /\ out.residualR = in.e * in.p * in.f
                  /\ Band(out.residualRiskLevel) = "low" <=> out.residualR <= 36
                  /\ Band(out.residualRiskLevel) = "medium"
                        <=> (37 <= out.residualR /\ out.residualR <= 70)
                  /\ Band(out.residualRiskLevel) = "high" <=> out.residualR > 70
            /\ ( /\ {in.ei, in.pi, in.fi, in.e, in.p, in.f} \subseteq ValidFactors
                 /\ in.ei * in.pi * in.fi = in.e * in.p * in.f )
               => out.initialRiskLevel = out.residualRiskLevel

\* a generated row at the edge of the low band: 36 = 6*6*1 is low,
\* 40 = 2*4*5 is medium
C19_Witness ==
    \E k \in 1..Len(enrichedRisks) :
        /\ risks[k].ei = 6 /\ risks[k].pi = 6 /\ risks[k].fi = 1
        /\ enrichedRisks[k].initialRi = 36
        /\ Band(enrichedRisks[k].initialRiskLevel) = "low"
        /\ risks[k].e = 2 /\ risks[k].p = 4 /\ risks[k].f = 5
        /\ enrichedRisks[k].residualR = 40
        /\ Band(enrichedRisks[k].residualRiskLevel) = "medium"

\* C20: no row is generated for a risk with a factor outside 1..6.
C20_OutOfRangeFactorRejected ==
    \A k \in 1..Len(enrichedRisks) :
        {risks[k].ei, risks[k].pi, risks[k].fi,
         risks[k].e, risks[k].p, risks[k].f} \subseteq ValidFactors

\* the rows of a generated document whose residual risk is in a band
InBand(band) ==
    {k \in 1..Len(enrichedRisks) : Band(enrichedRisks[k].residualRiskLevel) = band}

\* C21: in a generated document the low, medium and high counters are the
\* numbers of rows whose residual risk level is in that band, each row is
\* counted once, and the three counters add up to the number of rows.
C21_CountersAgreeWithBands ==
    Len(enrichedRisks) = Len(risks) =>
        /\ templateData.lowRiskCount = Cardinality(InBand("low"))
        /\ templateData.mediumRiskCount = Cardinality(InBand("medium"))
        /\ templateData.highRiskCount = Cardinality(InBand("high"))
        /\ templateData.totalHazardsCount = Len(risks)
        /\ templateData.lowRiskCount + templateData.mediumRiskCount
               + templateData.highRiskCount = templateData.totalHazardsCount

\* a generated document with a row at 36, one in 37..70 and one above 70
C21_Witness ==
    /\ Len(enrichedRisks) = 3
    /\ \E k \in 1..3 : enrichedRisks[k].residualR = 36
    /\ templateData.lowRiskCount = 1
    /\ templateData.mediumRiskCount = 1
    /\ templateData.highRiskCount = 1

\* the patterns a frequency text is searched for
FrequencyPatterns ==
    {<<"g","o","d","i","s","n","j">>,
     <<"g","o","d","i","s","n","j","e">>,
     <<"6"," ","m","e","s","e","c","i">>,
     <<"p","o","l","u","g","o","d","i","s","n","j","e">>,
     <<"3"," ","m","e","s","e","c">>,
     <<"k","v","a","r","t","a","l","n","o">>,
     <<"2"," ","g","o","d","i","n">>,
     <<"s","v","a","k","e"," ","2">>,
     <<"3"," ","g","o","d","i","n">>,
     <<"s","v","a","k","e"," ","3">>,
     <<"5"," ","g","o","d","i","n">>,
     <<"s","v","a","k","e"," ","5">>,
     <<"m","e","s","e","c","n","o">>,
     <<"m","e","s","e","c","n">>}

\* C22: a finished parseFrequencyToMonths call on one of the cadence wordings
\* returned the month count of that wording, and on a text that contains none
\* of the patterns it returned 12.
C22_EachWordingToItsMonths ==
    frequencyCall.months # NULL =>
        /\ \A pair \in WordingMonths :
               frequencyCall.frequency = pair[1] => frequencyCall.months = pair[2]
        /\ (\A pat \in FrequencyPatterns :
                ~includes(toLowerCase(frequencyCall.frequency), pat))
               => frequencyCall.months = 12

\* C25: when the operations run one after the other and no lookup, send or
\* update raises, a row with the 1-day flag has the 7-day flag, and a row with
\* the 7-day flag has the 30-day flag.
C25_RemindersInOrder ==
    \A i \in Ids(legalObligations) :
        /\ legalObligations[i].notifikovanoDana1 => legalObligations[i].notifikovanoDana7
        /\ legalObligations[i].notifikovanoDana7 => legalObligations[i].notifikovanoDana30

\* a row that got its 1-day reminder in a run that did not send its 30-day
\* reminder: the 30-day flag is from an earlier run
C25_Witness ==
    /\ lastOp.kind = "notify"
    /\ \E i \in Ids(legalObligations) :
           /\ legalObligations[i].notifikovanoDana1
           /\ <<i, 1>> \in lastOp.mailed
           /\ <<i, 30>> \notin lastOp.mailed

\* the obrazac number of the inspection table a row's source_table names
ObrazacOf(sourceTable) ==
    CASE sourceTable = "evidence_equipment_inspections" -> 8
      [] sourceTable = "evidence_electrical_inspections" -> 9
      [] sourceTable = "evidence_environment_tests" -> 10

InspectionSources ==
    {"evidence_equipment_inspections", "evidence_electrical_inspections",
     "evidence_environment_tests"}

\* C26: after a sync of a company, each of its obligations that came from an
\* inspection record has the due date that record's sledeciPregled holds now,
\* also when updateRecord changed the date after the obligation was created.
C26_DueDateFollowsRecord ==
    lastOp.kind = "sync" =>
        \A i \in Ids(legalObligations) :
            LET ob == legalObligations[i] IN
            (ob.companyId = lastOp.companyId /\ ob.sourceTable \in InspectionSources) =>
                \A k \in 1..Len(evidence[ObrazacOf(ob.sourceTable)]) :
                    LET r == evidence[ObrazacOf(ob.sourceTable)][k] IN
                    (r.id = ob.sourceRecordId /\ r.sledeciPregled # NULL)
                        => ob.rokDatum = r.sledeciPregled

\* C27: for every company, at every date, the overdue_obligations figure of
\* the overview is the number of rows obligationsOverdue returns for it.
C27_OverviewCountsOverdueRows ==
    \A c \in Companies :
        overdue_obligations(legalObligations, c, today)
            = Cardinality(obligationsOverdue(legalObligations, c, NULL, today))

\* C23: every risk in the wizard's list, and so every risk passed to
\* onComplete, has a residual risk below its initial risk.
C23_ResidualBelowInitial ==
    \A k \in 1..Len(wizard.risks) :
        wizard.risks[k].residualR < wizard.risks[k].initialRi

\* C28: the risks in the wizard's list have pairwise distinct ids, and each
\* risk passed to onComplete carries the id of the hazard whose code it got
\* when it was added.
C28_DistinctRiskIds ==
    /\ \A j, k \in 1..Len(wizard.risks) :
           j # k => wizard.risks[j].id # wizard.risks[k].id
    /\ \A k \in 1..Len(wizard.completed) :
           \E h \in hazards : /\ h.code = wizard.completed[k].hazardCode
                               /\ h.id = wizard.completed[k].hazardId

\* C24: a document workflow whose status is 'potpisan' keeps that status in
\* every later step: no reanalyzeWorkflow or markSigned moves it back.
C24_SignedStaysSigned ==
    [][\A id \in 1..Len(documentWorkflow) :
          documentWorkflow[id].status = "potpisan"
              => documentWorkflow'[id].status = "potpisan"]_vars

\* the number of a thread's unread messages from one side
UnreadFrom(t, senderType) ==
    Cardinality({k \in 1..Len(messages) :
        /\ messages[k].threadId = t
        /\ messages[k].senderType = senderType
        /\ ~messages[k].isRead})

\* C29: whenever no messaging procedure is in progress, each thread's
\* unreadByAgency is the number of its unread messages from the company and
\* its unreadByCompany the number of its unread messages from the agency.
C29_CountersMatchUnreadMessages ==
    (\A u \in Users : messagingCalls[u].pc = "idle") =>
        \A t \in 1..Len(messageThreads) :
            /\ messageThreads[t].unreadByAgency = UnreadFrom(t, "company")
            /\ messageThreads[t].unreadByCompany = UnreadFrom(t, "agency")

\* C30: a markAsPaid call on an invoice whose status is already 'paid' leaves
\* the company's subscriptionPaidUntil unchanged.
C30_PaidInvoiceExtendsOnce ==
    (lastPaid.invoiceId # NULL /\ lastPaid.wasPaid)
        => lastPaid.after = lastPaid.before

============================================================================
